---- MODULE Spec2Model ----
(***************************************************************************)
(* Model of the fit fault-injection orchestrator: the GDB/MI adapter       *)
(* (fit/interfaces/gdb/gdb_injector.py, controller.py), the run controller *)
(* (fit/injector.py) and the campaign driver (main.py).                    *)
(*                                                                         *)
(* The debugger and the inferior are the environment: the inferior can hit *)
(* a live breakpoint or exit whenever it is running, and GDB answers each  *)
(* MI command by appending records to the stream `mi`, which the adapter   *)
(* reads in batches.                                                       *)
(***************************************************************************)
EXTENDS Integers, Sequences, FiniteSets, TLC

(* ------------------------------ bounds -------------------------------- *)

\* number_of_runs of the campaign (main.py:345)
NumberOfRuns == 2

\* number of add_run calls made by the direct API client (SpecAddRun)
MaxAddRunCalls == 3

\* calls the client of the adapter makes (SpecAdapter)
MaxAdapterCalls == 4

\* items of the received and of the expected dict given to check
MaxItems == 2

\* records in one batch of GDB output, and batches await_response polls for
MaxBatchLen == 2
MaxPolls == 2
\* the longest chunk parse_memory is given, in bytes
MaxBytes == 9

\* the last address of the memory the slices of Memory range over, the
\* largest explicit step of a slice and the longest list written to one
MaxAddr == 12
MaxStep == 8
MaxListLen == 3

\* the longest list of probabilities given to Fixed, the largest bound of a
\* Uniform distribution (in absolute value) and its largest granularity
MaxCases == 3
MaxBit == 4
MaxGranularity == 3

(* --------------------------- program constants ------------------------- *)

\* word size in bytes of the hosted 32-bit target (GDBInjector.word_size)
word_size == 4

\* a stop record that carries no `bkptno` key
NoBkptNo == 0

(* ------------------------------ data ---------------------------------- *)

\* GDBInjector.State
STARTING == "STARTING"
RUNNING == "RUNNING"
INTERRUPT == "INTERRUPT"
EXIT == "EXIT"
State == {STARTING, RUNNING, INTERRUPT, EXIT}

\* campaign configuration: golden_result_condition and result_condition
golden_result_condition == "stop"
result_conditions == <<"fail">>
Conditions == <<golden_result_condition>> \o result_conditions
EventNames == {Conditions[i] : i \in 1..Len(Conditions)}

\* tracked memory: two words of the inferior
Addrs == {0, word_size}
\* the values the model lets a word and a pattern take: two bits
Word == 0..3
InitialMem == [a \in Addrs |-> 3]

\* targets of the campaign: a variable (one word), an address, a range
Targets == {[kind |-> "word", start |-> 0, stop |-> word_size],
            [kind |-> "word", start |-> word_size, stop |-> 2 * word_size],
            [kind |-> "range", start |-> 0, stop |-> 2 * word_size]}
Operations == {"xor", "and", "or", "zero", "value"}
Patterns == Word \ {0}

(* MI records, reduced to the fields the adapter looks at *)
MiRunning == [type |-> "result", message |-> "running", reason |-> "", bkptno |-> NoBkptNo]
MiDone == [type |-> "result", message |-> "done", reason |-> "", bkptno |-> NoBkptNo]
MiError == [type |-> "result", message |-> "error", reason |-> "", bkptno |-> NoBkptNo]
MiExited == [type |-> "notify", message |-> "stopped", reason |-> "exited-normally", bkptno |-> NoBkptNo]
MiSigint == [type |-> "notify", message |-> "stopped", reason |-> "signal-received", bkptno |-> NoBkptNo]
MiBreakpointHit(n) == [type |-> "notify", message |-> "stopped", reason |-> "breakpoint-hit", bkptno |-> n]

(* ---------------------------- bit operations --------------------------- *)

RECURSIVE BitOp(_, _, _)
\* Python's int ^, &, | on non-negative integers
BitOp(op, a, b) ==
    IF a = 0 /\ b = 0 THEN 0
    ELSE LET x == a % 2
             y == b % 2
             bit == CASE op = "xor" -> (IF x # y THEN 1 ELSE 0)
                      [] op = "and" -> (IF x = 1 /\ y = 1 THEN 1 ELSE 0)
                      [] op = "or" -> (IF x = 1 \/ y = 1 THEN 1 ELSE 0)
         IN bit + 2 * BitOp(op, a \div 2, b \div 2)

\* range(start, stop, step)
PyRange(start, stop, step) == {a \in start..(stop - 1) : (a - start) % step = 0}

(* ------------------------------ state --------------------------------- *)

VARIABLES
    state,        \* GDBInjector.state
    breakpoints,  \* GDBInjector.breakpoints: sequence of [id, name]
    inf,          \* the inferior: "stopped", "running" or "exited"
    gdbBps,       \* the breakpoints live in GDB: [id, loc]
    gdbNext,      \* the number GDB gives to the next breakpoint
    mi,           \* MI records GDB has emitted and the adapter has not read
    mem,          \* the tracked words of the inferior's memory
    events,       \* Injector.events: the names that have a callback
    golden,       \* Injector.golden: key -> list of values
    runs,         \* Injector.runs: key -> list of values
    pc,           \* position of the controller thread
    hpc,          \* position of the helper thread of the executor
    hres,         \* outcome of the helper's future
    ev,           \* the local `event` / `ev` of Injector.run
    iter,         \* 0 = golden run, i = i-th injected run
    nset,         \* index of the next condition to register
    outcome,      \* how the current / last Injector.run call ended
    fatal,        \* the exception that terminated the program, or "none"
    hist,         \* what has happened during the current Injector.run call
    addCalls,     \* number of calls made by the API client
    call          \* the last call of the API client

vars == <<state, breakpoints, inf, gdbBps, gdbNext, mi, mem, events, golden,
          runs, pc, hpc, hres, ev, iter, nset, outcome, fatal, hist, addCalls, call>>

adapterVars == <<state, breakpoints>>
gdbVars == <<inf, gdbBps, gdbNext, mi, mem>>
logVars == <<golden, runs>>
helperVars == <<hpc, hres>>

NoOutcome == [kind |-> "none", value |-> "none"]
Returned(v) == [kind |-> "returned", value |-> v]
Raised(e) == [kind |-> "raised", value |-> e]

NoWrite == [target |-> [kind |-> "none", start |-> 0, stop |-> 0], op |-> "none",
            pattern |-> 0, old |-> 0, before |-> InitialMem, cells |-> {}]

NoHist == [mode |-> "none", timeout |-> FALSE, injected |-> FALSE, blocking |-> 0,
           cbCount |-> 0, cbState |-> "none", preStop |-> "none", preVia |-> "none",
           postStop |-> "none", hit |-> "none", exited |-> FALSE, write |-> NoWrite]

(* --------------------------- the debugger ------------------------------ *)

\* GDB's reaction to -exec-continue: [inf, mi]
gdb_exec_continue ==
    IF inf = "stopped"
    THEN [inf |-> "running", mi |-> Append(mi, MiRunning)]
    ELSE [inf |-> inf, mi |-> Append(mi, MiError)]

\* GDB's answer to -data-read-memory-bytes / -data-write-memory-bytes: an
\* MI error once the inferior is gone, which await_response turns into
\* log.critical
gdb_data_access == IF inf = "exited" THEN MiError ELSE MiDone

\* GDB's answer to -data-list-register-values and to `set $reg=value`:
\* registers exist only while the inferior is stopped
gdb_register_access == IF inf = "stopped" THEN MiDone ELSE MiError

\* GDB's reaction to -exec-interrupt --all: [inf, mi]
gdb_exec_interrupt ==
    CASE inf = "running" -> [inf |-> "stopped", mi |-> Append(mi, MiSigint)]
      [] inf = "stopped" -> [inf |-> "stopped", mi |-> Append(mi, MiDone)]
      [] inf = "exited" -> [inf |-> "exited", mi |-> Append(mi, MiError)]

(* ------------------------- GDBController ------------------------------- *)

\* the shapes GDBInjector.run waits for (to_await)
to_await == {[type |-> "result", message |-> "running", reason |-> "*"],
             [type |-> "notify", message |-> "stopped", reason |-> "breakpoint-hit"]}

\* the shapes GDBInjector.interrupt waits for (SIGINT, breakpoint-hit, SIGTRAP)
interrupt_await == {[type |-> "notify", message |-> "stopped", reason |-> "signal-received"],
                    [type |-> "notify", message |-> "stopped", reason |-> "breakpoint-hit"]}

\* check(data, wait_for) on the reduced records: every key of the shape is
\* in the record, with an equal value unless the shape leaves it open;
\* a breakpoint-hit shape also asks for the key bkptno
check_record(msg, w) ==
    /\ msg.type = w.type
    /\ msg.message = w.message
    /\ (w.reason = "*" \/ msg.reason = w.reason)
    /\ (w.reason = "breakpoint-hit" => msg.bkptno # NoBkptNo)

\* await_response with the error test after the shapes
await_response_match_first(batch, wait) ==
    LET hit(i) == batch[i].message = "error" \/ \E w \in wait : check_record(batch[i], w)
        idx == {i \in 1..Len(batch) : hit(i) /\ \A j \in 1..(i - 1) : ~hit(j)}
        any == {i \in 1..Len(batch) : \E w \in wait : check_record(batch[i], w)}
    IN IF idx = {} THEN [kind |-> "poll", msg |-> MiDone]
       ELSE IF any # {}
            THEN [kind |-> "match", msg |-> batch[CHOOSE k \in any : \A j \in any : k <= j]]
            ELSE [kind |-> "critical", msg |-> batch[CHOOSE k \in idx : TRUE]]

\* one pass of await_response over a batch: the first record that is an MI
\* error or matches a shape; kind "poll" when the batch holds neither
await_response(batch, wait) ==
    LET hit(i) == batch[i].message = "error" \/ \E w \in wait : check_record(batch[i], w)
        idx == {i \in 1..Len(batch) : hit(i) /\ \A j \in 1..(i - 1) : ~hit(j)}
    IN IF idx = {} THEN [kind |-> "poll", msg |-> MiDone]
       ELSE LET i == CHOOSE k \in idx : TRUE
            IN IF batch[i].message = "error"
               THEN [kind |-> "critical", msg |-> batch[i]]
               ELSE [kind |-> "match", msg |-> batch[i]]

\* the shape the data commands and -break-insert wait for: a `done` result
done_await == {[type |-> "result", message |-> "done", reason |-> "*"]}

(* -------------------------- GDBInjector -------------------------------- *)

is_running == state = RUNNING

\* read_memory / write_memory with the state check dropped
memory_access_rejected_never == FALSE

\* the state check of read_memory and write_memory (gdb_injector.py:335,
\* 364)
memory_access_rejected == is_running

\* set_event with the Breakpoint appended before the state check
set_event_append_first(bps, id, event) ==
    [critical |-> is_running, breakpoints |-> Append(bps, [id |-> id, name |-> event])]

\* GDBInjector.set_event after -break-insert has been answered `done`
\* (gdb_injector.py:313-322): log.critical when is_running, else the
\* Breakpoint is appended to the registry
set_event(bps, id, event) ==
    IF is_running
    THEN [critical |-> TRUE, breakpoints |-> bps]
    ELSE [critical |-> FALSE, breakpoints |-> Append(bps, [id |-> id, name |-> event])]

\* the state check of read_register and write_register (gdb_injector.py:386,
\* 416)
register_access_rejected == is_running /\ state = EXIT

\* read_register after the values have come: `if "value" in val:
\* log.critical(...)`; GDB's entries are {"number": n, "value": v}
read_register_value_rejected == TRUE

\* first entry of the registry with the given id, "" when there is none
lookup_breakpoint(n) ==
    LET idx == {k \in 1..Len(breakpoints) : breakpoints[k].id = n}
    IN IF idx = {} THEN ""
       ELSE breakpoints[CHOOSE k \in idx : \A j \in idx : k <= j].name

RECURSIVE scan_stops(_, _)
\* the `for msg in bp` loop of GDBInjector.run
scan_stops(bp, i) ==
    IF i > Len(bp) THEN [kind |-> "none", name |-> ""]
    ELSE LET msg == bp[i] IN
         IF msg.message # "stopped" THEN scan_stops(bp, i + 1)
         ELSE IF msg.reason = "exited-normally" THEN [kind |-> "exit", name |-> "exit"]
         ELSE IF breakpoints = <<>> THEN scan_stops(bp, i + 1)
         ELSE IF msg.bkptno = NoBkptNo THEN [kind |-> "KeyError", name |-> ""]
         ELSE IF lookup_breakpoint(msg.bkptno) # ""
              THEN [kind |-> "bp", name |-> lookup_breakpoint(msg.bkptno)]
              ELSE scan_stops(bp, i + 1)

\* run_loop with the slip of returning the breakpoint's name without
\* setting self.state = INTERRUPT first
run_loop_keeps_running(bp, blocking) ==
    LET s == scan_stops(bp, 1) IN
    CASE s.kind = "exit" -> [kind |-> "return", value |-> "exit", state |-> EXIT]
      [] s.kind = "bp" -> [kind |-> "return", value |-> s.name, state |-> RUNNING]
      [] s.kind = "KeyError" -> [kind |-> "raise", value |-> "KeyError", state |-> RUNNING]
      [] s.kind = "none" ->
            IF blocking
            THEN [kind |-> "raise", value |-> "TypeError", state |-> RUNNING]
            ELSE [kind |-> "return", value |-> "unknown", state |-> EXIT]

\* GDBInjector.run after -exec-continue has been answered with the batch bp:
\* what the call does (return / raise), with which value, and the state it
\* leaves.  A blocking run that finds no stop in the batch calls
\* controller.wait_response(..., stop_event=...), a keyword wait_response
\* does not take: TypeError.
run_loop(bp, blocking) ==
    LET s == scan_stops(bp, 1) IN
    CASE s.kind = "exit" -> [kind |-> "return", value |-> "exit", state |-> EXIT]
      [] s.kind = "bp" -> [kind |-> "return", value |-> s.name, state |-> INTERRUPT]
      [] s.kind = "KeyError" -> [kind |-> "raise", value |-> "KeyError", state |-> RUNNING]
      [] s.kind = "none" ->
            IF blocking
            THEN [kind |-> "raise", value |-> "TypeError", state |-> RUNNING]
            ELSE [kind |-> "return", value |-> "unknown", state |-> EXIT]

\* GDBInjector.interrupt on the answer r: the name of the breakpoint, or
\* "None"
interrupt_result(r) ==
    IF r.message = "stopped" /\ r.reason = "breakpoint-hit" /\ lookup_breakpoint(r.bkptno) # ""
    THEN lookup_breakpoint(r.bkptno)
    ELSE "None"

(* ------------------------------ Memory --------------------------------- *)

\* Memory talks to the adapter one word at a time, read_memory(addr) and
\* write_memory(addr, value) (memory.py:199, 269); the model follows that
\* interface.  The GDB adapter of this tree declares read_memory(address,
\* count) and write_memory(address, value, repeat) instead
\* (gdb_injector.py:324, 354), so its byte-level encoding is not part of
\* what is modelled here.
\*
\* Memory.__getitem__: with the default step the read is the one word at
\* the start of the key (memory.py:198-199)
Memory_getitem(m, key) == m[key.start]

\* Memory.__setitem__ with an int: the value goes to every address of
\* range(start, end, step)
Memory_setitem(m, key, value) ==
    [a \in DOMAIN m |-> IF a \in PyRange(key.start, key.stop, word_size) THEN value ELSE m[a]]

(* ------------------------ injection_function --------------------------- *)

\* apply_operation with `|=` written where `^=` belongs
apply_operation_or_for_xor(op, old, pattern) ==
    CASE op = "xor" -> BitOp("or", old, pattern)
      [] op = "and" -> BitOp("and", old, pattern)
      [] op = "or" -> BitOp("or", old, pattern)
      [] op = "zero" -> 0
      [] op = "value" -> pattern

\* the if / elif chain over `operation`: the value handed to __setitem__
apply_operation(op, old, pattern) ==
    CASE op = "xor" -> BitOp("xor", old, pattern)
      [] op = "and" -> BitOp("and", old, pattern)
      [] op = "or" -> BitOp("or", old, pattern)
      [] op = "zero" -> 0
      [] op = "value" -> pattern

(* ------------------------------ add_run -------------------------------- *)

Scalar(s) == [list |-> FALSE, items |-> <<s>>]
ListOf(xs) == [list |-> TRUE, items |-> xs]

\* a value (or an element of a list value) that is None or a dict
bad_value(v) == \E i \in 1..Len(v.items) : v.items[i] \in {"None", "Dict"}

\* for key, value in result.items(): d[key].append(value)  (d a defaultdict)
dict_append(d, result) ==
    [k \in DOMAIN d \cup DOMAIN result |->
        (IF k \in DOMAIN d THEN d[k] ELSE <<>>)
        \o (IF k \in DOMAIN result THEN <<result[k]>> ELSE <<>>)]

\* add_run with the appends done before the key-set check
add_run_append_first(result, isGolden, g, r) ==
    LET g2 == IF isGolden THEN dict_append(g, result) ELSE g
        r2 == IF isGolden THEN r ELSE dict_append(r, result)
    IN IF \E k \in DOMAIN result : bad_value(result[k])
       THEN [critical |-> TRUE, golden |-> g, runs |-> r]
       ELSE IF DOMAIN g # {} /\ DOMAIN r # {} /\ DOMAIN g # DOMAIN result
       THEN [critical |-> TRUE, golden |-> g2, runs |-> r2]
       ELSE [critical |-> FALSE, golden |-> g2, runs |-> r2]

\* add_run with the `else:` lost: the golden record also goes to runs
add_run_no_else(result, isGolden, g, r) ==
    IF \E k \in DOMAIN result : bad_value(result[k])
    THEN [critical |-> TRUE, golden |-> g, runs |-> r]
    ELSE IF DOMAIN g # {} /\ DOMAIN r # {} /\ DOMAIN g # DOMAIN result
    THEN [critical |-> TRUE, golden |-> g, runs |-> r]
    ELSE [critical |-> FALSE,
          golden |-> IF isGolden THEN dict_append(g, result) ELSE g,
          runs |-> dict_append(r, result)]

\* Injector.add_run(result, golden) on the logs g (golden) and r (runs):
\* whether it ends in log.critical, and the logs it leaves
add_run(result, isGolden, g, r) ==
    IF \E k \in DOMAIN result : bad_value(result[k])
    THEN [critical |-> TRUE, golden |-> g, runs |-> r]
    ELSE IF DOMAIN g # {} /\ DOMAIN r # {} /\ DOMAIN g # DOMAIN result
    THEN [critical |-> TRUE, golden |-> g, runs |-> r]
    ELSE IF isGolden
    THEN [critical |-> FALSE, golden |-> dict_append(g, result), runs |-> r]
    ELSE [critical |-> FALSE, golden |-> g, runs |-> dict_append(r, result)]

EmptyDict == <<>>

NoCall == [made |-> FALSE, rec |-> EmptyDict, isGolden |-> FALSE,
           goldenBefore |-> EmptyDict, runsBefore |-> EmptyDict, failed |-> FALSE]

(* ------------------------------ Init ----------------------------------- *)

\* the state after gdb_injector(...) has built the Injector: the adapter's
\* constructor has done its first reset (`start` took breakpoint number 1
\* for its temporary breakpoint) and has left state at its class default
\* everything but the breakpoint registry
InitExceptRegistry ==
    /\ state = STARTING
    /\ inf = "stopped"
    /\ gdbBps = {}
    /\ gdbNext = 2
    /\ mi = <<>>
    /\ mem = InitialMem
    /\ events = {}
    /\ golden = EmptyDict
    /\ runs = EmptyDict
    /\ hpc = "idle"
    /\ hres = NoOutcome
    /\ ev = "none"
    /\ iter = 0
    /\ nset = 1
    /\ outcome = NoOutcome
    /\ fatal = "none"
    /\ hist = NoHist
    /\ addCalls = 0

InitCommon == breakpoints = <<>> /\ InitExceptRegistry

Init == InitCommon /\ call = NoCall /\ pc = "m_reset"

(* --------------------------- environment ------------------------------- *)

Alive == pc \notin {"fatal", "done"}
InCall == hist.mode # "none" /\ outcome.kind = "none"

\* the running inferior reaches a live breakpoint
EnvBreakpointHit ==
    /\ Alive
    /\ inf = "running"
    /\ \E b \in gdbBps :
          /\ mi' = Append(mi, MiBreakpointHit(b.id))
          /\ hist' = IF InCall
                     THEN [hist EXCEPT !.hit = b.loc,
                                       !.postStop = IF hist.injected THEN "bp" ELSE @]
                     ELSE hist
    /\ inf' = "stopped"
    /\ UNCHANGED <<adapterVars, gdbBps, gdbNext, mem, events, logVars, pc, helperVars,
                   ev, iter, nset, outcome, fatal, addCalls, call>>

\* the running inferior exits normally
EnvExit ==
    /\ Alive
    /\ inf = "running"
    /\ mi' = Append(mi, MiExited)
    /\ inf' = "exited"
    /\ hist' = IF InCall
               THEN [hist EXCEPT !.exited = TRUE,
                                 !.postStop = IF hist.injected THEN "exit" ELSE @]
               ELSE hist
    /\ UNCHANGED <<adapterVars, gdbBps, gdbNext, mem, events, logVars, pc, helperVars,
                   ev, iter, nset, outcome, fatal, addCalls, call>>

\* the running inferior stores into its tracked variable; the model lets
\* it do so once per run, during the injection delay
EnvStore ==
    /\ pc = "run_sleep"
    /\ inf = "running"
    /\ mem = InitialMem
    /\ \E v \in Word : v # mem[0] /\ mem' = [mem EXCEPT ![0] = v]
    /\ UNCHANGED <<adapterVars, inf, gdbBps, gdbNext, mi, events, logVars, pc, helperVars,
                   ev, iter, nset, outcome, fatal, hist, addCalls, call>>

(* ------------------------ main: setup of a run ------------------------- *)

\* an uncaught exception (SystemExit of log.critical included) ends the
\* program
Die(e) == pc' = "fatal" /\ fatal' = e

\* inj.reset(): -break-delete, then `start` up to the temporary breakpoint.
\* Neither self.state nor self.breakpoints is touched.
Reset ==
    /\ pc = "m_reset"
    /\ gdbBps' = {}
    /\ gdbNext' = gdbNext + 1
    /\ inf' = "stopped"
    /\ mi' = <<>>
    /\ mem' = InitialMem
    /\ nset' = 1
    /\ pc' = "m_set_event"
    /\ UNCHANGED <<adapterVars, events, logVars, helperVars, ev, iter, outcome, fatal,
                   hist, addCalls, call>>

\* inj.set_result_condition(condition): set_event writes -break-insert,
\* then checks is_running, then appends the Breakpoint; the Injector then
\* stores the callback
SetResultCondition ==
    /\ pc = "m_set_event"
    /\ gdbBps' = gdbBps \cup {[id |-> gdbNext, loc |-> Conditions[nset]]}
    /\ gdbNext' = gdbNext + 1
    /\ mi' = <<>>
    /\ IF is_running
       THEN /\ Die("SystemExit")
            /\ UNCHANGED <<breakpoints, events, nset>>
       ELSE /\ breakpoints' = Append(breakpoints, [id |-> gdbNext, name |-> Conditions[nset]])
            /\ events' = events \cup {Conditions[nset]}
            /\ nset' = nset + 1
            /\ pc' = IF nset = Len(Conditions) THEN "m_run" ELSE "m_set_event"
            /\ UNCHANGED fatal
    /\ UNCHANGED <<state, inf, mem, logVars, helperVars, ev, iter, outcome, hist,
                   addCalls, call>>

(* ---------------------------- Injector.run ---------------------------- *)

\* Injector.run raises e: the exception leaves the call and ends the program
Raise(e) == Die(e) /\ outcome' = Raised(e)

\* the first half of GDBInjector.run: state = RUNNING, -exec-continue
exec_continue ==
    /\ state' = RUNNING
    /\ inf' = gdb_exec_continue.inf
    /\ mi' = gdb_exec_continue.mi

\* Injector.run without injection (injector.py:186-187), first half of the
\* blocking run.  The golden run of main passes no timeout, the timeout
\* test passes one: either way the argument is not looked at on this path.
PlainRun ==
    /\ pc = "m_run"
    /\ iter = 0
    /\ exec_continue
    /\ \E t \in BOOLEAN :
          hist' = [NoHist EXCEPT !.mode = "plain", !.timeout = t, !.blocking = 1]
    /\ outcome' = NoOutcome
    /\ ev' = "none"
    /\ pc' = "run_plain_await"
    /\ UNCHANGED <<breakpoints, gdbBps, gdbNext, mem, events, logVars, helperVars, iter,
                   nset, fatal, addCalls, call>>

\* the rest of that blocking run: the write's await_response, then the loop
PlainAwait ==
    /\ pc = "run_plain_await"
    /\ mi # <<>>
    /\ mi' = <<>>
    /\ LET a == await_response(mi, to_await)
           r == run_loop(mi, TRUE)
       IN CASE a.kind = "poll" -> UNCHANGED <<state, pc, ev, outcome, fatal>>
            [] a.kind = "critical" -> Raise("SystemExit") /\ UNCHANGED <<state, ev>>
            [] a.kind = "match" ->
                 /\ state' = r.state
                 /\ IF r.kind = "raise"
                    THEN Raise(r.value) /\ UNCHANGED ev
                    ELSE ev' = r.value /\ pc' = "run_cb" /\ UNCHANGED <<outcome, fatal>>
    /\ UNCHANGED <<breakpoints, inf, gdbBps, gdbNext, mem, events, logVars, helperVars,
                   iter, nset, hist, addCalls, call>>

\* self.events[ev].callback(self, **kwargs): KeyError when ev has no entry
Callback ==
    /\ pc = "run_cb"
    /\ IF ev \in events
       THEN /\ hist' = [hist EXCEPT !.cbCount = @ + 1, !.cbState = state]
            /\ pc' = "run_return"
            /\ UNCHANGED <<outcome, fatal>>
       ELSE Raise("KeyError") /\ UNCHANGED hist
    /\ UNCHANGED <<adapterVars, gdbVars, events, logVars, helperVars, ev, iter, nset,
                   addCalls, call>>

\* return ev / return event
Return ==
    /\ pc = "run_return"
    /\ outcome' = Returned(ev)
    /\ pc' = "m_record"
    /\ UNCHANGED <<adapterVars, gdbVars, events, logVars, helperVars, ev, iter, nset,
                   fatal, hist, addCalls, call>>

\* injector.py:197-203: where the call goes after the non-blocking run
after_nonblocking(event) == IF event # "unknown" THEN "run_cb" ELSE "run_sleep"

\* after_interrupt with the `return event` lost: the call goes on to inject
after_interrupt_always_injects(event) == "run_inject"

\* injector.py:204-210: where the call goes after interrupt()
after_interrupt(event) == IF event # "None" THEN "run_cb" ELSE "run_inject"

\* injector.py:197, first half: run(blocking=False) writes -exec-continue
NonBlockingRun ==
    /\ pc = "m_run"
    /\ iter > 0
    /\ exec_continue
    /\ \E t \in BOOLEAN : hist' = [NoHist EXCEPT !.mode = "inject", !.timeout = t]
    /\ outcome' = NoOutcome
    /\ ev' = "none"
    /\ pc' = "run_nb_await"
    /\ UNCHANGED <<breakpoints, gdbBps, gdbNext, mem, events, logVars, helperVars, iter,
                   nset, fatal, addCalls, call>>

\* injector.py:197-201: the non-blocking run answers; a result other than
\* "unknown" goes to the callback and is returned
NonBlockingAwait ==
    /\ pc = "run_nb_await"
    /\ mi # <<>>
    /\ mi' = <<>>
    /\ LET a == await_response(mi, to_await)
           r == run_loop(mi, FALSE)
       IN CASE a.kind = "poll" -> UNCHANGED <<state, pc, ev, outcome, fatal, hist>>
            [] a.kind = "critical" -> Raise("SystemExit") /\ UNCHANGED <<state, ev, hist>>
            [] a.kind = "match" ->
                 /\ state' = r.state
                 /\ IF r.kind = "raise"
                    THEN Raise(r.value) /\ UNCHANGED <<ev, hist>>
                    ELSE /\ ev' = r.value
                         /\ UNCHANGED <<outcome, fatal>>
                         /\ pc' = after_nonblocking(r.value)
                         /\ hist' = IF r.value # "unknown"
                                    THEN [hist EXCEPT !.preStop = r.value, !.preVia = "run"]
                                    ELSE hist
    /\ UNCHANGED <<breakpoints, inf, gdbBps, gdbNext, mem, events, logVars, helperVars,
                   iter, nset, addCalls, call>>

\* injector.py:203-208: after the sleep, interrupt(); a breakpoint name goes
\* to the callback and is returned
Interrupt ==
    /\ pc = "run_sleep"
    /\ state' = INTERRUPT
    /\ inf' = gdb_exec_interrupt.inf
    /\ mi' = <<>>
    /\ LET a == await_response(gdb_exec_interrupt.mi, interrupt_await)
           name == interrupt_result(a.msg)
       IN /\ a.kind # "poll"
          /\ IF a.kind = "critical"
             THEN Raise("SystemExit") /\ UNCHANGED <<ev, hist>>
             ELSE /\ UNCHANGED <<outcome, fatal>>
                  /\ ev' = name
                  /\ pc' = after_interrupt(name)
                  /\ hist' = IF name # "None"
                             THEN [hist EXCEPT !.preStop = name, !.preVia = "interrupt"]
                             ELSE hist
    /\ UNCHANGED <<breakpoints, gdbBps, gdbNext, mem, events, logVars, helperVars, iter,
                   nset, addCalls, call>>

\* injector.py:210 with main.py:355-432: one (where, operation) is drawn,
\* the stencil gives a pattern, and the operation is applied through
\* inj.memory; the adapter rejects the access while it is RUNNING, GDB
\* once the inferior is gone
InjectionFunction ==
    /\ pc = "run_inject"
    /\ IF is_running \/ gdb_data_access.message = "error"
       THEN Raise("SystemExit") /\ UNCHANGED <<mem, hist>>
       ELSE /\ \E op \in Operations, pattern \in Patterns, target \in Targets :
                 LET old == Memory_getitem(mem, target)
                     new == apply_operation(op, old, pattern)
                     m2 == Memory_setitem(mem, target, new)
                 IN /\ mem' = m2
                    /\ hist' = [hist EXCEPT
                          !.injected = TRUE,
                          !.write = [target |-> target, op |-> op, pattern |-> pattern,
                                     old |-> old, before |-> mem,
                                     cells |-> {[addr |-> x, value |-> m2[x]] :
                                          x \in PyRange(target.start, target.stop, word_size)}]]
            /\ pc' = "run_submit"
            /\ UNCHANGED <<outcome, fatal>>
    /\ UNCHANGED <<adapterVars, inf, gdbBps, gdbNext, mi, events, logVars, helperVars, ev,
                   iter, nset, addCalls, call>>

\* injector.py:212: executor.submit(self.__internal_injector.run, blocking=True)
Submit ==
    /\ pc = "run_submit"
    /\ hpc' = "h_run"
    /\ hres' = NoOutcome
    /\ hist' = [hist EXCEPT !.blocking = @ + 1]
    /\ pc' = "run_result"
    /\ UNCHANGED <<adapterVars, gdbVars, events, logVars, ev, iter, nset, outcome, fatal,
                   addCalls, call>>

\* the helper thread: first half of GDBInjector.run(blocking=True)
HelperRun ==
    /\ hpc = "h_run"
    /\ exec_continue
    /\ hpc' = "h_await"
    /\ UNCHANGED <<breakpoints, gdbBps, gdbNext, mem, events, logVars, pc, hres, ev, iter,
                   nset, outcome, fatal, hist, addCalls, call>>

\* the helper thread: the rest of the blocking run; what it returns or
\* raises is stored in the future
HelperAwait ==
    /\ hpc = "h_await"
    /\ mi # <<>>
    /\ mi' = <<>>
    /\ LET a == await_response(mi, to_await)
           r == run_loop(mi, TRUE)
       IN CASE a.kind = "poll" -> UNCHANGED <<state, hpc, hres>>
            [] a.kind = "critical" ->
                 hres' = Raised("SystemExit") /\ hpc' = "done" /\ UNCHANGED state
            [] a.kind = "match" ->
                 /\ state' = r.state
                 /\ hpc' = "done"
                 /\ hres' = IF r.kind = "raise" THEN Raised(r.value) ELSE Returned(r.value)
    /\ UNCHANGED <<breakpoints, inf, gdbBps, gdbNext, mem, events, logVars, pc, ev, iter,
                   nset, outcome, fatal, hist, addCalls, call>>

\* injector.py:214-218, 222: proc.result() hands over what the helper
\* returned, or re-raises what it raised
FutureResult ==
    /\ pc = "run_result"
    /\ hpc = "done"
    /\ hpc' = "idle"
    /\ IF hres.kind = "raised"
       THEN Raise(hres.value) /\ UNCHANGED ev
       ELSE ev' = hres.value /\ pc' = "run_cb" /\ UNCHANGED <<outcome, fatal>>
    /\ UNCHANGED <<adapterVars, gdbVars, events, logVars, hres, iter, nset, hist,
                   addCalls, call>>

\* injector.py:218-220: the timeout passes before the helper is done
FutureTimeout ==
    /\ pc = "run_result"
    /\ hpc # "done"
    /\ hist.timeout
    /\ pc' = "run_join"
    /\ UNCHANGED <<adapterVars, gdbVars, events, logVars, helperVars, ev, iter, nset,
                   outcome, fatal, hist, addCalls, call>>

\* ExecutorJoin with an executor whose exit does not wait for the helper
ExecutorJoin_no_wait ==
    /\ pc = "run_join"
    /\ outcome' = Returned("Timeout")
    /\ pc' = "m_record"
    /\ UNCHANGED <<adapterVars, gdbVars, events, logVars, helperVars, ev, iter, nset, fatal,
                   hist, addCalls, call>>

\* return "Timeout" leaves the `with ThreadPoolExecutor()` block, whose exit
\* waits for the helper; nothing is done about the inferior or self.state
ExecutorJoin ==
    /\ pc = "run_join"
    /\ hpc = "done"
    /\ hpc' = "idle"
    /\ outcome' = Returned("Timeout")
    /\ pc' = "m_record"
    /\ UNCHANGED <<adapterVars, gdbVars, events, logVars, hres, ev, iter, nset, fatal,
                   hist, addCalls, call>>

(* ------------------------ main: record and loop ------------------------ *)

\* the run record of main.py:330-335 / 445-450: the result and one read per
\* tracked target
Labels == {"result", "var", "range"}
run_record(result, m) ==
    [k \in Labels |->
        CASE k = "result" -> Scalar(result)
          [] k = "var" -> Scalar(ToString(Memory_getitem(m, [kind |-> "word", start |-> 0, stop |-> word_size])))
          [] k = "range" -> Scalar(ToString(Memory_getitem(m, [kind |-> "range", start |-> 0, stop |-> 2 * word_size])))]

\* main.py:330-337 and 445-451: snapshot the targets (read_memory rejects
\* the read while RUNNING), add_run, then the next iteration or the end;
\* the call's locals and history end with the iteration
Record ==
    /\ pc = "m_record"
    /\ LET res == add_run(run_record(outcome.value, mem), iter = 0, golden, runs)
       IN IF is_running \/ gdb_data_access.message = "error" \/ res.critical
          THEN Die("SystemExit") /\ UNCHANGED <<logVars, iter, ev, outcome, hist>>
          ELSE /\ golden' = res.golden
               /\ runs' = res.runs
               /\ ev' = "none"
               /\ outcome' = NoOutcome
               /\ hist' = NoHist
               /\ UNCHANGED fatal
               /\ IF iter < NumberOfRuns
                  THEN iter' = iter + 1 /\ pc' = "m_reset"
                  ELSE pc' = "m_save" /\ UNCHANGED iter
    /\ UNCHANGED <<adapterVars, gdbVars, events, helperVars, nset, addCalls, call>>

\* main.py:454-455: inj.save(experiment_name); inj.close()
SaveAndClose ==
    /\ pc = "m_save"
    /\ pc' = "done"
    /\ UNCHANGED <<adapterVars, gdbVars, events, logVars, helperVars, ev, iter, nset,
                   outcome, fatal, hist, addCalls, call>>

Next ==
    \/ EnvBreakpointHit
    \/ EnvExit
    \/ EnvStore
    \/ Reset
    \/ SetResultCondition
    \/ PlainRun
    \/ PlainAwait
    \/ Callback
    \/ Return
    \/ NonBlockingRun
    \/ NonBlockingAwait
    \/ Interrupt
    \/ InjectionFunction
    \/ Submit
    \/ HelperRun
    \/ HelperAwait
    \/ FutureResult
    \/ FutureTimeout
    \/ ExecutorJoin
    \/ Record
    \/ SaveAndClose

Spec == Init /\ [][Next]_vars

(* --------------- a client that calls add_run directly ------------------ *)

ApiKeys == {"result", "x"}
ApiValues == {Scalar("1"), Scalar("None"), Scalar("Dict"),
              ListOf(<<"1", "2">>), ListOf(<<"1", "None">>), ListOf(<<"Dict">>)}
ApiRecords == UNION {[D -> ApiValues] : D \in SUBSET ApiKeys}

InitAddRun == InitCommon /\ call = NoCall /\ pc = "api"

\* inj.add_run(rec, isGolden) with any record; log.critical ends the program
ApiAddRun ==
    /\ pc = "api"
    /\ addCalls < MaxAddRunCalls
    /\ addCalls' = addCalls + 1
    /\ \E rec \in ApiRecords, isGolden \in BOOLEAN :
          LET res == add_run(rec, isGolden, golden, runs)
          IN /\ golden' = res.golden
             /\ runs' = res.runs
             /\ call' = [made |-> TRUE, rec |-> rec, isGolden |-> isGolden,
                         goldenBefore |-> golden, runsBefore |-> runs,
                         failed |-> res.critical]
             /\ IF res.critical
                THEN Die("SystemExit")
                ELSE UNCHANGED <<pc, fatal>>
    /\ UNCHANGED <<adapterVars, gdbVars, events, helperVars, ev, iter, nset, outcome, hist>>

NextAddRun == ApiAddRun

SpecAddRun == InitAddRun /\ [][NextAddRun]_vars

(* ------------- a client that calls the adapter directly ---------------- *)

\* the last call the client made to the GDBInjector: what it was, the
\* adapter state and registry it found, the MI commands it wrote, and how
\* it ended ("none" while it has not ended)
NoAdapterCall == [op |-> "none", arg |-> "none", stateBefore |-> STARTING,
                  bpsBefore |-> <<>>, sent |-> <<>>, end |-> "none", value |-> "none"]

AdapterCall(op, arg, sent, end, value) ==
    [op |-> op, arg |-> arg, stateBefore |-> state, bpsBefore |-> breakpoints,
     sent |-> sent, end |-> end, value |-> value]

InitAdapter == InitCommon /\ call = NoAdapterCall /\ pc = "adapter"

ClientReady == pc = "adapter" /\ addCalls < MaxAdapterCalls

\* how a call that ended with `e` leaves the client: log.critical and
\* uncaught exceptions end the program
ClientEnds(e) == IF e = "returned" THEN UNCHANGED <<pc, fatal>> ELSE Die(e)

\* GDBInjector.reset(): -break-delete and `start`; no state check, and
\* neither self.state nor self.breakpoints is assigned
AdapterReset ==
    /\ ClientReady
    /\ addCalls' = addCalls + 1
    /\ gdbBps' = {}
    /\ gdbNext' = gdbNext + 1
    /\ inf' = "stopped"
    /\ mi' = <<>>
    /\ mem' = InitialMem
    /\ call' = AdapterCall("reset", "none", <<"-break-delete", "start">>, "returned", "None")
    /\ UNCHANGED <<adapterVars, events, logVars, pc, helperVars, ev, iter, nset, outcome,
                   fatal, hist>>

\* GDBInjector.set_event(event): -break-insert is written and answered
\* before is_running is looked at; the Breakpoint is appended last
AdapterSetEvent ==
    /\ ClientReady
    /\ addCalls' = addCalls + 1
    /\ \E e \in EventNames :
          /\ gdbBps' = gdbBps \cup {[id |-> gdbNext, loc |-> e]}
          /\ gdbNext' = gdbNext + 1
          /\ mi' = <<>>
          /\ LET a == await_response(Append(mi, MiDone), done_await)
                 r == set_event(breakpoints, gdbNext, e)
                 end == IF a.kind = "critical" \/ r.critical THEN "SystemExit" ELSE "returned"
             IN /\ call' = AdapterCall("set_event", e, <<"-break-insert">>, end, "None")
                /\ breakpoints' = IF a.kind = "critical" THEN breakpoints ELSE r.breakpoints
                /\ ClientEnds(end)
    /\ UNCHANGED <<state, inf, mem, events, logVars, helperVars, ev, iter, nset, outcome,
                   hist>>

\* GDBInjector.read_memory(address, ...): the state check, then
\* -data-read-memory-bytes and its answer
AdapterReadMemory ==
    /\ ClientReady
    /\ addCalls' = addCalls + 1
    /\ \E addr \in Addrs :
          IF memory_access_rejected
          THEN /\ call' = AdapterCall("read_memory", addr, <<>>, "SystemExit", "None")
               /\ ClientEnds("SystemExit")
               /\ UNCHANGED mi
          ELSE LET a == await_response(Append(mi, gdb_data_access), done_await)
                   end == IF a.kind = "critical" THEN "SystemExit" ELSE "returned"
               IN /\ call' = AdapterCall("read_memory", addr, <<"-data-read-memory-bytes">>,
                                         end, IF end = "returned" THEN mem[addr] ELSE "None")
                  /\ ClientEnds(end)
                  /\ mi' = <<>>
    /\ UNCHANGED <<adapterVars, inf, gdbBps, gdbNext, mem, events, logVars, helperVars, ev,
                   iter, nset, outcome, hist>>

\* GDBInjector.write_memory(address, value, ...): the state check, then
\* -data-write-memory-bytes and its answer
AdapterWriteMemory ==
    /\ ClientReady
    /\ addCalls' = addCalls + 1
    /\ \E addr \in Addrs, v \in {0, 1} :
          IF memory_access_rejected
          THEN /\ call' = AdapterCall("write_memory", addr, <<>>, "SystemExit", "None")
               /\ ClientEnds("SystemExit")
               /\ UNCHANGED <<mi, mem>>
          ELSE LET a == await_response(Append(mi, gdb_data_access), done_await)
                   end == IF a.kind = "critical" THEN "SystemExit" ELSE "returned"
               IN /\ call' = AdapterCall("write_memory", addr, <<"-data-write-memory-bytes">>,
                                         end, "None")
                  /\ ClientEnds(end)
                  /\ mi' = <<>>
                  /\ mem' = IF end = "returned" THEN [mem EXCEPT ![addr] = v] ELSE mem
    /\ UNCHANGED <<adapterVars, inf, gdbBps, gdbNext, events, logVars, helperVars, ev, iter,
                   nset, outcome, hist>>

\* GDBInjector.read_register(register): the state check, then
\* -data-list-register-values, its answer, and the check of the entry
AdapterReadRegister ==
    /\ ClientReady
    /\ addCalls' = addCalls + 1
    /\ IF register_access_rejected
       THEN /\ call' = AdapterCall("read_register", "r0", <<>>, "SystemExit", "None")
            /\ ClientEnds("SystemExit")
            /\ UNCHANGED mi
       ELSE LET a == await_response(Append(mi, gdb_register_access), done_await)
                end == IF a.kind = "critical" \/ read_register_value_rejected
                       THEN "SystemExit" ELSE "returned"
            IN /\ call' = AdapterCall("read_register", "r0",
                                      <<"-data-list-register-values">>, end, "None")
               /\ ClientEnds(end)
               /\ mi' = <<>>
    /\ UNCHANGED <<adapterVars, inf, gdbBps, gdbNext, mem, events, logVars, helperVars, ev,
                   iter, nset, outcome, hist>>

\* GDBInjector.write_register(register, value): the state check, then the
\* console `set $register=value` and its answer
AdapterWriteRegister ==
    /\ ClientReady
    /\ addCalls' = addCalls + 1
    /\ IF register_access_rejected
       THEN /\ call' = AdapterCall("write_register", "r0", <<>>, "SystemExit", "None")
            /\ ClientEnds("SystemExit")
            /\ UNCHANGED mi
       ELSE LET a == await_response(Append(mi, gdb_register_access), done_await)
                end == IF a.kind = "critical" THEN "SystemExit" ELSE "returned"
            IN /\ call' = AdapterCall("write_register", "r0", <<"set $register">>, end, "None")
               /\ ClientEnds(end)
               /\ mi' = <<>>
    /\ UNCHANGED <<adapterVars, inf, gdbBps, gdbNext, mem, events, logVars, helperVars, ev,
                   iter, nset, outcome, hist>>

\* GDBInjector.run(blocking), first half (gdb_injector.py:443-464): a
\* warning when already RUNNING, then state = RUNNING and -exec-continue
AdapterRun ==
    /\ ClientReady
    /\ addCalls' = addCalls + 1
    /\ \E blocking \in BOOLEAN :
          call' = AdapterCall("run", blocking, <<"-exec-continue">>, "none", "None")
    /\ exec_continue
    /\ pc' = "adapter_run"
    /\ UNCHANGED <<breakpoints, gdbBps, gdbNext, mem, events, logVars, helperVars, ev, iter,
                   nset, outcome, fatal, hist>>

\* the rest of GDBInjector.run: the answer to -exec-continue and the loop
AdapterRunAwait ==
    /\ pc = "adapter_run"
    /\ mi # <<>>
    /\ mi' = <<>>
    /\ LET a == await_response(mi, to_await)
           r == run_loop(mi, call.arg)
       IN CASE a.kind = "poll" -> UNCHANGED <<state, pc, fatal, call>>
            [] a.kind = "critical" ->
                 /\ call' = [call EXCEPT !.end = "SystemExit"]
                 /\ Die("SystemExit")
                 /\ UNCHANGED state
            [] a.kind = "match" ->
                 /\ state' = r.state
                 /\ IF r.kind = "raise"
                    THEN call' = [call EXCEPT !.end = r.value] /\ Die(r.value)
                    ELSE /\ call' = [call EXCEPT !.end = "returned", !.value = r.value]
                         /\ pc' = "adapter"
                         /\ UNCHANGED fatal
    /\ UNCHANGED <<breakpoints, inf, gdbBps, gdbNext, mem, events, logVars, helperVars, ev,
                   iter, nset, outcome, hist, addCalls>>

\* GDBInjector.interrupt(), first half (gdb_injector.py:506-508): state =
\* INTERRUPT and -exec-interrupt --all; there is no state check
AdapterInterrupt ==
    /\ ClientReady
    /\ addCalls' = addCalls + 1
    /\ call' = AdapterCall("interrupt", "none", <<"-exec-interrupt">>, "none", "None")
    /\ state' = INTERRUPT
    /\ inf' = gdb_exec_interrupt.inf
    /\ mi' = gdb_exec_interrupt.mi
    /\ pc' = "adapter_interrupt"
    /\ UNCHANGED <<breakpoints, gdbBps, gdbNext, mem, events, logVars, helperVars, ev, iter,
                   nset, outcome, fatal, hist>>

\* the rest of GDBInjector.interrupt: it waits for a stop record
AdapterInterruptAwait ==
    /\ pc = "adapter_interrupt"
    /\ mi # <<>>
    /\ mi' = <<>>
    /\ LET a == await_response(mi, interrupt_await)
       IN CASE a.kind = "poll" -> UNCHANGED <<state, pc, fatal, call>>
            [] a.kind = "critical" ->
                 /\ call' = [call EXCEPT !.end = "SystemExit"]
                 /\ Die("SystemExit")
                 /\ UNCHANGED state
            [] a.kind = "match" ->
                 /\ state' = INTERRUPT
                 /\ call' = [call EXCEPT !.end = "returned", !.value = interrupt_result(a.msg)]
                 /\ pc' = "adapter"
                 /\ UNCHANGED fatal
    /\ UNCHANGED <<breakpoints, inf, gdbBps, gdbNext, mem, events, logVars, helperVars, ev,
                   iter, nset, outcome, hist, addCalls>>

\* the client hands run(blocking=True) to an executor thread, as
\* Injector.run does (injector.py:212), and goes on without its result
AdapterSubmit ==
    /\ ClientReady
    /\ hpc = "idle"
    /\ addCalls' = addCalls + 1
    /\ hpc' = "h_run"
    /\ hres' = NoOutcome
    /\ call' = AdapterCall("submit", TRUE, <<>>, "returned", "None")
    /\ UNCHANGED <<adapterVars, gdbVars, events, logVars, pc, ev, iter, nset, outcome,
                   fatal, hist>>

NextAdapter ==
    \/ AdapterReset
    \/ AdapterSetEvent
    \/ AdapterReadMemory
    \/ AdapterWriteMemory
    \/ AdapterReadRegister
    \/ AdapterWriteRegister
    \/ AdapterRun
    \/ AdapterRunAwait
    \/ AdapterInterrupt
    \/ AdapterInterruptAwait
    \/ AdapterSubmit
    \/ HelperRun
    \/ HelperAwait
    \/ EnvBreakpointHit
    \/ EnvExit

SpecAdapter == InitAdapter /\ [][NextAdapter]_vars

(* --------- parse_memory, get_int, to_gdb_hex (gdb_injector.py) --------- *)

\* A hex string is a sequence of digits, two per byte.  The digits are taken
\* in radix HexRadix instead of 16 so that the value of an 8-byte word stays
\* within the integers of the model checker; the layout (two digits per
\* byte, word_size bytes per word, the byte order) is the program's.
HexRadix == 2
ByteBase == HexRadix * HexRadix

WordSizes == {4, 8}
Endianness == {"little", "big"}

\* Python's s[a:b] for 0 <= a on a 0-based sequence
PySlice(q, a, b) ==
    LET hi == IF b < Len(q) THEN b ELSE Len(q)
    IN IF a >= hi THEN <<>> ELSE [i \in 1..(hi - a) |-> q[a + i]]

\* bytes.fromhex(s)
fromhex(q) == [i \in 1..(Len(q) \div 2) |-> q[2 * i - 1] * HexRadix + q[2 * i]]

RECURSIVE from_bytes_big(_, _)
\* int.from_bytes(b[1..n], "big")
from_bytes_big(b, n) == IF n = 0 THEN 0 ELSE from_bytes_big(b, n - 1) * ByteBase + b[n]

\* int.from_bytes(b, byteorder)
from_bytes(b, byteorder) ==
    IF byteorder = "big" THEN from_bytes_big(b, Len(b))
    ELSE from_bytes_big([i \in 1..Len(b) |-> b[Len(b) + 1 - i]], Len(b))

\* get_int(s, byteorder) (gdb_injector.py:50-60)
get_int(q, byteorder) == from_bytes(fromhex(q), byteorder)

\* f"{b:02x}" for every byte of a byte string
tohex(b) == [i \in 1..(2 * Len(b)) |->
                IF i % 2 = 1 THEN b[(i + 1) \div 2] \div HexRadix ELSE b[i \div 2] % HexRadix]

RECURSIVE IntPow(_, _)
IntPow(x, n) == IF n = 0 THEN 1 ELSE x * IntPow(x, n - 1)

\* struct.pack of one unsigned integer of `width` bytes
pack_uint(v, width, byteorder) ==
    LET little == [i \in 1..width |-> (v \div IntPow(ByteBase, i - 1)) % ByteBase]
    IN IF byteorder = "little" THEN little ELSE [i \in 1..width |-> little[width + 1 - i]]

RECURSIVE pack_all(_, _, _, _)
pack_all(vs, k, width, byteorder) ==
    IF k > Len(vs) THEN <<>>
    ELSE pack_uint(vs[k], width, byteorder) \o pack_all(vs, k + 1, width, byteorder)

\* to_gdb_hex with the byte order of the format string ignored
to_gdb_hex_always_little(vs, byteorder, wsize) ==
    tohex(pack_all(vs, 1, IF wsize = 4 THEN 4 ELSE 8, "little"))

\* to_gdb_hex(i, byteorder, word_size) (gdb_injector.py:63-80): "I" for
\* word_size 4 and "Q" otherwise, "<" or ">"
to_gdb_hex(vs, byteorder, wsize) ==
    tohex(pack_all(vs, 1, IF wsize = 4 THEN 4 ELSE 8, byteorder))

\* a chunk of the `memory` list of -data-read-memory-bytes
Chunk(begin, offset, contents) ==
    [begin |-> begin, offset |-> offset, end |-> begin + Len(contents) \div 2,
     contents |-> contents]

\* res[k] = v on a 0-based Python list kept as a 1-based sequence; k = -1 is
\* the last element; err is "IndexError" once an index has been out of range
PySetItem(res, k, v) ==
    IF res.err # "none" THEN res
    ELSE LET idx == IF k < 0 THEN Len(res.words) + k + 1 ELSE k + 1
         IN IF idx < 1 \/ idx > Len(res.words)
            THEN [res EXCEPT !.err = "IndexError"]
            ELSE [res EXCEPT !.words[idx] = v]

RECURSIVE parse_words(_, _, _, _, _, _)
\* gdb_injector.py:36-40: the loop over the full words of one chunk
parse_words(res, chunk, i, last, wsize, endianness) ==
    IF i >= last THEN res
    ELSE parse_words(
            PySetItem(res, chunk.offset + i,
                      get_int(PySlice(chunk.contents, i * wsize * 2, (i + 1) * wsize * 2),
                              endianness)),
            chunk, i + 1, last, wsize, endianness)

\* parse_memory with the remainder bytes left out
parse_chunk_no_remainder(res, chunk, count, wsize, endianness) ==
    parse_words(res, chunk, 0, (chunk.end - chunk.begin) \div wsize, wsize, endianness)

\* gdb_injector.py:30-45: one chunk
parse_chunk(res, chunk, count, wsize, endianness) ==
    LET remainder == count % wsize
        last == (chunk.end - chunk.begin) \div wsize
        full == parse_words(res, chunk, 0, last, wsize, endianness)
    IN IF remainder > 0
       THEN PySetItem(full, -1,
                      get_int(PySlice(chunk.contents, last * wsize * 2,
                                      last * wsize * 2 + remainder * 2), endianness))
       ELSE full

RECURSIVE parse_chunks(_, _, _, _, _, _)
parse_chunks(res, memory, k, count, wsize, endianness) ==
    IF k > Len(memory) THEN res
    ELSE parse_chunks(parse_chunk(res, memory[k], count, wsize, endianness),
                      memory, k + 1, count, wsize, endianness)

\* parse_memory(memory, count, word_size, endianness) (gdb_injector.py:19-47)
parse_memory(memory, count, wsize, endianness) ==
    LET remainder == count % wsize
        size0 == count \div wsize + (IF remainder > 0 THEN 1 ELSE 0)
        size == IF size0 > 0 THEN size0 ELSE wsize
    IN parse_chunks([err |-> "none", words |-> [i \in 1..size |-> 0]],
                    memory, 1, count, wsize, endianness)

(* ------------- a client of the conversions and of the words ------------ *)

\* the byte values the chunks are drawn from
SampleBytes == {0, 1, ByteBase - 1}

RECURSIVE ByteSeqs(_)
\* the byte strings of length n over SampleBytes
ByteSeqs(n) ==
    IF n = 0 THEN {<<>>} ELSE {Append(q, b) : q \in ByteSeqs(n - 1), b \in SampleBytes}

\* the count GDB reads in the last argument of the command of write_memory,
\* f"{hex(repeat)[2:]}e", a hexadecimal number (gdb_injector.py:367)
write_count(repeat) == repeat * 16 + 14

\* -data-write-memory-bytes: the contents, repeated until `count` bytes are
\* written, as a function of the offset from the address
gdb_write_bytes(contents, count) ==
    LET b == fromhex(contents) IN [k \in 0..(count - 1) |-> b[(k % Len(b)) + 1]]

\* -data-read-memory-bytes of `count` bytes at the address just written
gdb_read_bytes(written, begin, count) ==
    <<Chunk(begin, 0, tohex([i \in 1..count |-> written[i - 1]]))>>

NoCodecCall ==
    [op |-> "none", wsize |-> 0, endianness |-> "", count |-> 0, bytes |-> <<>>,
     value |-> 0, hex |-> <<>>, memory |-> <<>>,
     result |-> [err |-> "none", words |-> <<>>]]

InitCodec == InitCommon /\ call = NoCodecCall /\ pc = "codec"

\* parse_memory on the single chunk GDB answers for a readable range
ParseMemoryCall ==
    /\ pc = "codec"
    /\ call.op = "none"
    /\ \E w \in WordSizes, e \in Endianness, n \in 1..MaxBytes :
         \E b \in ByteSeqs(n) :
            call' = [NoCodecCall EXCEPT
                        !.op = "parse_memory", !.wsize = w, !.endianness = e,
                        !.count = n, !.bytes = b,
                        !.result = parse_memory(<<Chunk(0, 0, tohex(b))>>, n, w, e)]
    /\ UNCHANGED <<adapterVars, gdbVars, events, logVars, pc, helperVars, ev, iter, nset,
                   outcome, fatal, hist, addCalls>>

\* write_memory(A, [v], 1) followed by read_memory(A, word_size)
WriteReadCall ==
    /\ pc = "codec"
    /\ call.op = "none"
    /\ \E w \in WordSizes, e \in Endianness :
         \E v \in 0..(IntPow(ByteBase, w) - 1) :
            LET hex == to_gdb_hex(<<v>>, e, w)
                written == gdb_write_bytes(hex, write_count(1))
            IN call' = [NoCodecCall EXCEPT
                           !.op = "write_read", !.wsize = w, !.endianness = e,
                           !.count = w, !.value = v, !.hex = hex,
                           !.result = parse_memory(gdb_read_bytes(written, 0, w), w, w, e)]
    /\ UNCHANGED <<adapterVars, gdbVars, events, logVars, pc, helperVars, ev, iter, nset,
                   outcome, fatal, hist, addCalls>>

\* the contents of one word whose first byte is b
word_contents(b, w) == tohex([k \in 1..w |-> IF k = 1 THEN b ELSE 0])

\* parse_memory on the chunks GDB answers for a range of MaxListLen words of
\* which only the words s1 and s2 are readable: `offset` is the distance in
\* bytes of the chunk from the start of the read
ParseChunksCall ==
    /\ pc = "codec"
    /\ call.op = "none"
    /\ \E w \in WordSizes, e \in Endianness, s1, s2 \in 0..(MaxListLen - 1) :
         \E b1, b2 \in SampleBytes :
            /\ s1 < s2
            /\ LET memory == <<Chunk(s1 * w, s1 * w, word_contents(b1, w)),
                               Chunk(s2 * w, s2 * w, word_contents(b2, w))>>
               IN call' = [NoCodecCall EXCEPT
                              !.op = "parse_chunks", !.wsize = w, !.endianness = e,
                              !.count = MaxListLen * w, !.memory = memory,
                              !.result = parse_memory(memory, MaxListLen * w, w, e)]
    /\ UNCHANGED <<adapterVars, gdbVars, events, logVars, pc, helperVars, ev, iter, nset,
                   outcome, fatal, hist, addCalls>>

NextCodec == ParseMemoryCall \/ WriteReadCall \/ ParseChunksCall

SpecCodec == InitCodec /\ [][NextCodec]_vars

(* -------------------- a client of Memory's slices ---------------------- *)

\* a slice without a step (addr.step is None)
NoStep == 0

\* the slice keys: start : stop and start : stop : step
SliceKeys ==
    {[start |-> a, stop |-> b, step |-> st] :
        a \in {0, 4}, b \in 0..(MaxAddr + 1), st \in {NoStep} \cup 1..MaxStep}

RECURSIVE ListsUpTo(_, _)
ListsUpTo(S, n) ==
    IF n = 0 THEN {<<>>}
    ELSE LET shorter == ListsUpTo(S, n - 1)
         IN shorter \cup {Append(q, x) : q \in {r \in shorter : Len(r) = n - 1}, x \in S}

\* the values assigned to a slice: an int, or a list of ints
SliceValues ==
    {[kind |-> "int", v |-> x, list |-> <<>>] : x \in {5, 6}}
    \cup {[kind |-> "list", v |-> 0, list |-> l] : l \in ListsUpTo({5, 6}, MaxListLen)}

\* the words of the target before the call, one per address
TargetWords == [a \in 0..MaxAddr |-> (a % 4) + 1]

\* list(range(start, stop, step)) for step > 0
range_list(start, stop, step) ==
    LET n == IF stop <= start THEN 0 ELSE (stop - start + step - 1) \div step
    IN [i \in 1..n |-> start + (i - 1) * step]

\* the step of a slice key (memory.py:189-196, 250-257)
slice_step(key, wsize) == IF key.step = NoStep THEN wsize ELSE key.step

\* Memory.__getitem__ of a slice (memory.py:189-206): one read_memory(start)
\* when the step is the word size, else one read per address of the range
getitem_slice(m, key, wsize) ==
    LET step == slice_step(key, wsize)
        addrs == range_list(key.start, key.stop, step)
    IN IF step = wsize
       THEN [list |-> FALSE, words |-> <<m[key.start]>>]
       ELSE [list |-> TRUE, words |-> [i \in 1..Len(addrs) |-> m[addrs[i]]]]

\* Memory.__setitem__ with the step of the key ignored
setitem_slice_word_step(key, value, wsize) ==
    LET addrs == range_list(key.start, key.stop, wsize)
        n == IF value.kind = "int" \/ Len(addrs) < Len(value.list)
             THEN Len(addrs) ELSE Len(value.list)
    IN [i \in 1..n |-> [address |-> addrs[i],
                        value |-> IF value.kind = "int" THEN value.v ELSE value.list[i]]]

\* Memory.__setitem__ of a slice (memory.py:250-275): the write_memory calls
\* it makes, in order; zip stops at the shorter of the range and the list
setitem_slice(key, value, wsize) ==
    LET addrs == range_list(key.start, key.stop, slice_step(key, wsize))
        n == IF value.kind = "int" \/ Len(addrs) < Len(value.list)
             THEN Len(addrs) ELSE Len(value.list)
    IN [i \in 1..n |-> [address |-> addrs[i],
                        value |-> IF value.kind = "int" THEN value.v ELSE value.list[i]]]

RECURSIVE write_all(_, _, _)
\* the words of the target after the first k calls of write_memory
write_all(m, calls, k) ==
    IF k = 0 THEN m
    ELSE [write_all(m, calls, k - 1) EXCEPT ![calls[k].address] = calls[k].value]

NoMemoryCall ==
    [op |-> "none", wsize |-> 0, key |-> [start |-> 0, stop |-> 0, step |-> NoStep],
     value |-> [kind |-> "int", v |-> 0, list |-> <<>>], calls |-> <<>>,
     after |-> TargetWords, result |-> [list |-> FALSE, words |-> <<>>]]

InitMemory == InitCommon /\ call = NoMemoryCall /\ pc = "memory"

\* inj.memory[start:stop:step] = value
MemorySetItem ==
    /\ pc = "memory"
    /\ call.op = "none"
    /\ \E w \in WordSizes, key \in SliceKeys, value \in SliceValues :
         LET calls == setitem_slice(key, value, w)
         IN call' = [NoMemoryCall EXCEPT
                        !.op = "setitem", !.wsize = w, !.key = key, !.value = value,
                        !.calls = calls,
                        !.after = write_all(TargetWords, calls, Len(calls))]
    /\ UNCHANGED <<adapterVars, gdbVars, events, logVars, pc, helperVars, ev, iter, nset,
                   outcome, fatal, hist, addCalls>>

\* inj.memory[start:stop:step]
MemoryGetItem ==
    /\ pc = "memory"
    /\ call.op = "none"
    /\ \E w \in WordSizes, key \in SliceKeys :
         /\ key.start <= MaxAddr
         /\ call' = [NoMemoryCall EXCEPT
                        !.op = "getitem", !.wsize = w, !.key = key,
                        !.result = getitem_slice(TargetWords, key, w)]
    /\ UNCHANGED <<adapterVars, gdbVars, events, logVars, pc, helperVars, ev, iter, nset,
                   outcome, fatal, hist, addCalls>>

NextMemory == MemorySetItem \/ MemoryGetItem

SpecMemory == InitMemory /\ [][NextMemory]_vars

(* ------------------------- distributions ------------------------------- *)

\* Probabilities are counted in units of the tolerance of Fixed, 1e-6
\* (distribution.py:103): ProbOne is the literal 1 and ProbTolerance the
\* literal 1e-6.  Sums are exact; the rounding of floats is not modelled.
ProbOne == 1000000
ProbTolerance == 1

\* the probabilities the cases are drawn from
ProbValues == {0, 1, 2, 499999, 500000, 500001, ProbOne}

RECURSIVE sum(_, _)
\* sum(cases[1..n])
sum(cases, n) == IF n = 0 THEN 0 ELSE sum(cases, n - 1) + cases[n]

\* Fixed.__init__ (distribution.py:102-107): assert 1 - sum(cases) <= 1e-6
Fixed_init(cases) ==
    IF ProbOne - sum(cases, Len(cases)) <= ProbTolerance THEN "ok" ELSE "AssertionError"

\* adjust rounding up to the next multiple
adjust_up(value, granularity) == ((value + granularity - 1) \div granularity) * granularity

\* Distribution.adjust (distribution.py:31-39), // being the floor division
adjust(value, granularity) == (value \div granularity) * granularity

NoDistCall ==
    [op |-> "none", cases |-> <<>>, lo |-> 0, hi |-> 0, g |-> 1, x |-> 0,
     result |-> "none", value |-> 0]

InitDist == InitCommon /\ call = NoDistCall /\ pc = "dist"

\* Fixed(cases)
FixedInit ==
    /\ pc = "dist"
    /\ call.op = "none"
    /\ \E cases \in ListsUpTo(ProbValues, MaxCases) :
         call' = [NoDistCall EXCEPT !.op = "Fixed", !.cases = cases,
                                    !.result = Fixed_init(cases)]
    /\ UNCHANGED <<adapterVars, gdbVars, events, logVars, pc, helperVars, ev, iter, nset,
                   outcome, fatal, hist, addCalls>>

\* Uniform(lo, hi, g).random(), x being the draw of random.randint(lo, hi)
UniformRandom ==
    /\ pc = "dist"
    /\ call.op = "none"
    /\ \E lo \in (0 - MaxBit)..MaxBit, hi \in (0 - MaxBit)..MaxBit, g \in 1..MaxGranularity :
         \E x \in lo..hi :
            call' = [NoDistCall EXCEPT !.op = "Uniform.random", !.lo = lo, !.hi = hi,
                                       !.g = g, !.x = x, !.result = "ok",
                                       !.value = adjust(x, g)]
    /\ UNCHANGED <<adapterVars, gdbVars, events, logVars, pc, helperVars, ev, iter, nset,
                   outcome, fatal, hist, addCalls>>

RECURSIVE bit_length(_)
\* int.bit_length() of a non-negative integer
bit_length(x) == IF x = 0 THEN 0 ELSE 1 + bit_length(x \div 2)

\* the values of max_size, the word size in bits (32 by default,
\* stencil.py:14), small enough for the shifted patterns to be enumerated
StencilSizes == {2, 3}

\* Stencil.random (stencil.py:26-43) for the draw `choice` of
\* distribution.random(): an int (list FALSE, one word) or an IntList
Stencil_random(pattern, start_bit, end_bit, max_size, choice) ==
    IF start_bit = end_bit
    THEN [list |-> FALSE, err |-> "none", words |-> <<start_bit>>]
    ELSE IF end_bit - start_bit < max_size
    THEN [list |-> FALSE, err |-> "none", words |-> <<pattern * IntPow(2, choice)>>]
    ELSE LET number_of_chunks == (end_bit - start_bit) \div max_size + 1
             res0 == [err |-> "none", words |-> [i \in 1..number_of_chunks |-> 0]]
             res1 == PySetItem(res0, choice \div max_size,
                               pattern * IntPow(2, choice % max_size))
             res2 == IF (choice % max_size) + bit_length(pattern) > max_size
                     THEN PySetItem(res1, choice \div max_size + 1,
                                    pattern \div IntPow(2, max_size - (choice % max_size)))
                     ELSE res1
         IN [list |-> TRUE, err |-> res2.err, words |-> res2.words]

\* Stencil(distribution, pattern, max_size).random(); the constructor's
\* assertions (stencil.py:19-24) bound the pattern and the distribution
StencilRandom ==
    /\ pc = "dist"
    /\ call.op = "none"
    /\ \E m \in StencilSizes, lo \in 0..MaxBit, hi \in 0..MaxBit :
         \E pattern \in 0..(IntPow(2, m) - 1), choice \in lo..hi :
            /\ lo <= bit_length(pattern)
            /\ bit_length(pattern) <= hi
            /\ call' = [op |-> "Stencil.random", pattern |-> pattern, lo |-> lo, hi |-> hi,
                        max_size |-> m, choice |-> choice,
                        out |-> Stencil_random(pattern, lo, hi, m, choice)]
    /\ UNCHANGED <<adapterVars, gdbVars, events, logVars, pc, helperVars, ev, iter, nset,
                   outcome, fatal, hist, addCalls>>

NextDist == FixedInit \/ UniformRandom \/ StencilRandom

SpecDist == InitDist /\ [][NextDist]_vars

(* ------------------------ a client of Registers ------------------------ *)

\* the names given to inj.regs[...]
RegisterKeys == {"pc", "PC", "Pc", "sp", "SP", "r0", "R0", "r9"}

\* str.lower on the names above
lower(name) ==
    CASE name \in {"pc", "PC", "Pc"} -> "pc"
      [] name \in {"sp", "SP"} -> "sp"
      [] name \in {"r0", "R0"} -> "r0"
      [] OTHER -> name

\* the register-names lists of the debugger (gdb_injector.py:188)
RegisterNames == {<<"pc", "sp", "r0">>, <<"PC", "sp", "r0">>}

\* the register-values list: entry k carries a `value` field or not
RegisterValues == [1..3 -> [has_value : BOOLEAN, value : {"17"}]]

\* the values assigned to a register
RegisterWrites ==
    {[kind |-> "int", v |-> 5, list |-> <<>>]}
    \cup {[kind |-> "list", v |-> 0, list |-> l] : l \in {<<>>, <<5>>, <<5, 6>>}}

\* name in registers
in_list(name, names) == \E k \in 1..Len(names) : names[k] = name

\* register_names.index(register), 0 standing for ValueError
index(names, register) ==
    IF in_list(register, names)
    THEN CHOOSE k \in 1..Len(names) :
            names[k] = register /\ \A j \in 1..(k - 1) : names[j] # register
    ELSE 0

\* int(val["value"]) of the decimal strings above
int_of(str) == IF str = "17" THEN 17 ELSE 0

NoRegisterCall ==
    [op |-> "none", name |-> "", names |-> <<>>, values |-> <<>>, lookup |-> "none",
     accessed |-> 0, has_value |-> FALSE, written |-> [kind |-> "int", v |-> 0, list |-> <<>>],
     end |-> "none", value |-> 0]

\* GDBInjector.read_register(register) in a state that lets registers be
\* read (gdb_injector.py:398-404)
read_register(c) ==
    LET idx == index(c.names, c.name)
    IN IF idx = 0 THEN [c EXCEPT !.lookup = "ValueError", !.end = "ValueError"]
       ELSE LET val == c.values[idx]
                found == [c EXCEPT !.lookup = "found", !.accessed = idx,
                                   !.has_value = val.has_value]
            IN IF val.has_value
               THEN [found EXCEPT !.end = "SystemExit"]
               ELSE [found EXCEPT !.end = "KeyError"]

\* Registers.__getitem__(name) (injector.py:45-56)
Registers_getitem(c) ==
    IF ~in_list(lower(c.name), c.names)
    THEN [c EXCEPT !.lookup = "fatal", !.end = "SystemExit"]
    ELSE read_register(c)

\* Registers.__setitem__(name, value) (injector.py:58-77)
Registers_setitem(c) ==
    IF ~in_list(c.name, c.names)
    THEN [c EXCEPT !.lookup = "fatal", !.end = "SystemExit"]
    ELSE LET found == [c EXCEPT !.lookup = "found", !.accessed = index(c.names, c.name)]
         IN IF c.written.kind = "list" /\ Len(c.written.list) > 1
            THEN [found EXCEPT !.end = "SystemExit"]
            ELSE IF c.written.kind = "list" /\ Len(c.written.list) = 0
            THEN [found EXCEPT !.end = "IndexError"]
            ELSE [found EXCEPT !.end = "returned",
                               !.value = IF c.written.kind = "int" THEN c.written.v
                                         ELSE c.written.list[1]]

InitRegisters == InitCommon /\ call = NoRegisterCall /\ pc = "registers"

\* inj.regs[name]
RegistersGetItem ==
    /\ pc = "registers"
    /\ call.op = "none"
    /\ ~register_access_rejected
    /\ \E name \in RegisterKeys, names \in RegisterNames, values \in RegisterValues :
         call' = Registers_getitem(
                    [NoRegisterCall EXCEPT !.op = "getitem", !.name = name, !.names = names,
                                           !.values = values])
    /\ UNCHANGED <<adapterVars, gdbVars, events, logVars, pc, helperVars, ev, iter, nset,
                   outcome, fatal, hist, addCalls>>

\* inj.regs[name] = value
RegistersSetItem ==
    /\ pc = "registers"
    /\ call.op = "none"
    /\ ~register_access_rejected
    /\ \E name \in RegisterKeys, names \in RegisterNames, value \in RegisterWrites :
         call' = Registers_setitem(
                    [NoRegisterCall EXCEPT !.op = "setitem", !.name = name, !.names = names,
                                           !.written = value])
    /\ UNCHANGED <<adapterVars, gdbVars, events, logVars, pc, helperVars, ev, iter, nset,
                   outcome, fatal, hist, addCalls>>

NextRegisters == RegistersGetItem \/ RegistersSetItem

SpecRegisters == InitRegisters /\ [][NextRegisters]_vars

(* ------------------- check(data, wait_for) on trees -------------------- *)

\* the values of an MI record or of a wait_for shape: None, a string, an
\* int, a dict (its items in iteration order, keys distinct) or a list
VNull == [t |-> "null"]
VStr(x) == [t |-> "str", s |-> x]
VInt(x) == [t |-> "int", n |-> x]
VDict(items) == [t |-> "dict", d |-> items]
VList(elems) == [t |-> "list", l |-> elems]
Item(k, v) == [k |-> k, v |-> v]

TreeKeys == {"a", "b"}

\* the values one level below the top of the trees that are checked
TreeValues ==
    {VNull, VStr("a"), VStr("ab"), VInt(1),
     VDict(<<>>), VDict(<<Item("a", VNull)>>), VDict(<<Item("a", VStr("a"))>>),
     VDict(<<Item("b", VInt(1))>>),
     VList(<<>>), VList(<<VInt(1)>>), VList(<<VStr("a")>>),
     VList(<<VDict(<<Item("a", VNull)>>)>>),
     VList(<<VDict(<<Item("a", VStr("a"))>>), VDict(<<Item("b", VInt(1))>>)>>)}

\* the dicts with at most MaxItems items
TreeDicts ==
    {VDict(<<>>)}
    \cup {VDict(<<Item(k, v)>>) : k \in TreeKeys, v \in TreeValues}
    \cup (IF MaxItems >= 2
          THEN {VDict(<<Item(k[1], v1), Item(k[2], v2)>>) :
                   k \in {q \in TreeKeys \X TreeKeys : q[1] # q[2]},
                   v1 \in TreeValues, v2 \in TreeValues}
          ELSE {})

\* Python's `x in s` for the strings of the trees: substring
str_contains(s, x) == <<s, x>> \in {<<"a", "a">>, <<"ab", "a">>, <<"ab", "b">>, <<"ab", "ab">>}

\* `key in data`: "True", "False", or "TypeError" when data is no container
key_in(key, data) ==
    CASE data.t = "dict" ->
            IF \E i \in 1..Len(data.d) : data.d[i].k = key THEN "True" ELSE "False"
      [] data.t = "str" -> IF str_contains(data.s, key) THEN "True" ELSE "False"
      [] data.t = "list" ->
            IF \E i \in 1..Len(data.l) : data.l[i] = VStr(key) THEN "True" ELSE "False"
      [] OTHER -> "TypeError"

\* `data[key]` once `key in data` has held: the value of a dict; a str or a
\* list cannot be indexed by a str
HasItem(data) == data.t = "dict"
GetItem(data, key) ==
    data.d[CHOOSE i \in 1..Len(data.d) : data.d[i].k = key].v

RECURSIVE check(_, _)
RECURSIVE check_items(_, _, _)
RECURSIVE check_list(_, _, _, _)

\* controller.py:36-40: `for v in value: if isinstance(v, dict): if not
\* check(data[key], v): return False`
check_list(data, key, value, j) ==
    IF j > Len(value.l) THEN "True"
    ELSE IF value.l[j].t # "dict" THEN check_list(data, key, value, j + 1)
    ELSE IF ~HasItem(data) THEN "TypeError"
    ELSE LET r == check(GetItem(data, key), value.l[j])
         IN IF r = "True" THEN check_list(data, key, value, j + 1) ELSE r

\* controller.py:25-45: the loop over wait_for.items() from item i on
check_items(data, items, i) ==
    IF i > Len(items) THEN "True"
    ELSE LET key == items[i].k
             value == items[i].v
             rest == check_items(data, items, i + 1)
         IN IF key_in(key, data) # "True" THEN key_in(key, data)
            ELSE CASE value.t = "null" -> rest
                   [] value.t = "dict" ->
                        IF ~HasItem(data) THEN "TypeError"
                        ELSE LET r == check(GetItem(data, key), value)
                             IN IF r = "True" THEN rest ELSE r
                   [] value.t = "list" ->
                        LET r == check_list(data, key, value, 1)
                        IN IF r = "True" THEN rest ELSE r
                   [] OTHER ->
                        IF ~HasItem(data) THEN "TypeError"
                        ELSE IF GetItem(data, key) # value THEN "False" ELSE rest

\* check(data, wait_for): "True", "False", or the exception it raises
check(data, wait_for) == check_items(data, wait_for.d, 1)

NoCheckCall == [op |-> "none", data |-> VDict(<<>>), wait_for |-> VDict(<<>>),
                result |-> "none"]

InitCheck == InitCommon /\ call = NoCheckCall /\ pc = "check"

\* check(data, wait_for) on one received dict and one expected dict
CheckCall ==
    /\ pc = "check"
    /\ call.op = "none"
    /\ \E data \in TreeDicts, wait_for \in TreeDicts :
          call' = [op |-> "check", data |-> data, wait_for |-> wait_for,
                   result |-> check(data, wait_for)]
    /\ UNCHANGED <<adapterVars, gdbVars, events, logVars, pc, helperVars, ev, iter, nset,
                   outcome, fatal, hist, addCalls>>

NextCheck == CheckCall

SpecCheck == InitCheck /\ [][NextCheck]_vars

(* --------------- await_response over several batches ------------------- *)

\* the records GDB may emit while await_response polls
AwaitRecords == {MiRunning, MiDone, MiError, MiSigint, MiBreakpointHit(2)}

\* what get_gdb_response may return: up to MaxBatchLen records, none when
\* its timeout passes
RECURSIVE SeqsUpTo(_, _)
SeqsUpTo(S, n) ==
    IF n = 0 THEN {<<>>}
    ELSE LET shorter == SeqsUpTo(S, n - 1)
         IN shorter \cup {Append(q, x) : q \in {r \in shorter : Len(r) = n - 1}, x \in S}
AwaitBatches == SeqsUpTo(AwaitRecords, MaxBatchLen)

\* a call of await_response: the shapes, the mode, the batch it is looking
\* at, how many batches it has polled for, whether an earlier batch held an
\* error or a match, and how it ended
NoAwaitCall == [op |-> "none", wait |-> {}, whole |-> FALSE, batch |-> <<>>, polls |-> 0,
                before |-> 0, earlier |-> FALSE, end |-> "none", value |-> <<>>]

InitAwait == InitCommon /\ call = NoAwaitCall /\ pc = "await"

\* one pass of the `while True` loop of await_response over request_response
\* (controller.py:142-157): what ends the call, and with which value
await_pass(batch, wait, whole) ==
    LET a == await_response(batch, wait)
    IN CASE a.kind = "poll" -> [end |-> "none", value |-> <<>>]
         [] a.kind = "critical" -> [end |-> "SystemExit", value |-> <<a.msg>>]
         [] a.kind = "match" -> [end |-> "returned",
                                 value |-> IF whole THEN batch ELSE <<a.msg>>]

\* controller.write / wait_response hand the first batch to await_response
AwaitCall ==
    /\ pc = "await"
    /\ call.op = "none"
    /\ \E wait \in {to_await, interrupt_await, done_await}, whole \in BOOLEAN,
          batch \in AwaitBatches :
          LET r == await_pass(batch, wait, whole)
          IN call' = [op |-> "await_response", wait |-> wait, whole |-> whole,
                      batch |-> batch, polls |-> 0, before |-> 0, earlier |-> FALSE,
                      end |-> r.end, value |-> r.value]
    /\ UNCHANGED <<adapterVars, gdbVars, events, logVars, pc, helperVars, ev, iter, nset,
                   outcome, fatal, hist, addCalls>>

\* controller.py:157: nothing ended the pass, get_gdb_response brings the
\* next batch and the loop goes over it; `before` counts the records of the
\* batches gone over so far
AwaitPoll ==
    /\ pc = "await"
    /\ call.op = "await_response"
    /\ call.end = "none"
    /\ call.polls < MaxPolls
    /\ \E batch \in AwaitBatches :
          LET r == await_pass(batch, call.wait, call.whole)
              hit(x) == x.message = "error" \/ \E w \in call.wait : check_record(x, w)
          IN call' = [call EXCEPT
                        !.batch = batch,
                        !.polls = @ + 1,
                        !.before = @ + Len(call.batch),
                        !.earlier = @ \/ \E i \in 1..Len(call.batch) : hit(call.batch[i]),
                        !.end = r.end,
                        !.value = r.value]
    /\ UNCHANGED <<adapterVars, gdbVars, events, logVars, pc, helperVars, ev, iter, nset,
                   outcome, fatal, hist, addCalls>>

NextAwait == AwaitCall \/ AwaitPoll

SpecAwait == InitAwait /\ [][NextAwait]_vars

(* ---------------- GDBInjector.run over a first response ---------------- *)

\* the records of the response to -exec-continue
RunRecords == {MiRunning, MiExited, MiSigint, MiBreakpointHit(2), MiBreakpointHit(3)}

\* the whole responses controller.write hands to run: they hold a record
\* that matches one of the shapes of to_await (controller.py:142-157)
RunBatches ==
    {b \in SeqsUpTo(RunRecords, MaxBatchLen) : await_response(b, to_await).kind = "match"}

\* the breakpoint registries the run looks the stop up in
Registries ==
    {<<>>, <<[id |-> 2, name |-> "stop"]>>,
     <<[id |-> 2, name |-> "stop"], [id |-> 3, name |-> "fail"]>>}

NoRunCall == [op |-> "none", blocking |-> FALSE, batch |-> <<>>, kind |-> "none",
              value |-> "none"]

InitRunLoop ==
    /\ breakpoints \in Registries
    /\ InitExceptRegistry
    /\ call = NoRunCall
    /\ pc = "run_loop"

\* GDBInjector.run(blocking) whose -exec-continue is answered by `batch`
RunLoopCall ==
    /\ pc = "run_loop"
    /\ call.op = "none"
    /\ \E blocking \in BOOLEAN, batch \in RunBatches :
         LET r == run_loop(batch, blocking)
         IN /\ call' = [op |-> "run", blocking |-> blocking, batch |-> batch,
                        kind |-> r.kind, value |-> r.value]
            /\ state' = r.state
    /\ UNCHANGED <<breakpoints, gdbVars, events, logVars, pc, helperVars, ev, iter, nset,
                   outcome, fatal, hist, addCalls>>

\* GDBInjector.run(blocking=True, stop_event=e) after -exec-continue has
\* been answered with bp: e is looked at once per turn of the loop, before
\* the records (gdb_injector.py:466-468); when it is not set by then the
\* turn goes on as without an event, and a turn that finds no stop calls
\* controller.wait_response, which looks at no event
run_stop_event(bp, set_before_check) ==
    IF set_before_check
    THEN [kind |-> "return", value |-> "Timeout", state |-> RUNNING]
    ELSE run_loop(bp, TRUE)

\* run(blocking=True, stop_event=e), e being set by another thread either
\* before the loop looks at it or after
RunStopEventCall ==
    /\ pc = "run_loop"
    /\ call.op = "none"
    /\ \E set_before_check \in BOOLEAN, batch \in RunBatches :
         LET r == run_stop_event(batch, set_before_check)
         IN /\ call' = [op |-> "run_stop_event", blocking |-> TRUE, batch |-> batch,
                        set_before_check |-> set_before_check,
                        kind |-> r.kind, value |-> r.value]
            /\ state' = r.state
    /\ UNCHANGED <<breakpoints, gdbVars, events, logVars, pc, helperVars, ev, iter, nset,
                   outcome, fatal, hist, addCalls>>

NextRunLoop == RunLoopCall \/ RunStopEventCall

SpecRunLoop == InitRunLoop /\ [][NextRunLoop]_vars

(* --------------- two GDBInjector objects in one process ---------------- *)

\* the GDBInjector objects of the process; each has its own GDB session and
\* its own self.state, and `breakpoints` is the one list of the class
\* (gdb_injector.py:126), which __init__ does not replace
Instances == {"first", "second"}

\* the last call on one of the objects; next[i] is the number i's GDB gives
\* to its next breakpoint, owner[k] the object whose set_event appended
\* breakpoints[k]
NoInstanceCall ==
    [op |-> "none", inst |-> "none", next |-> [i \in Instances |-> 2], owner |-> <<>>,
     bkptno |-> NoBkptNo, kind |-> "none", value |-> "none"]

InitInstances == InitCommon /\ call = NoInstanceCall /\ pc = "instances"

\* set_event(e) on object i, whose GDB numbers the breakpoint next[i]
InstanceSetEvent ==
    /\ pc = "instances"
    /\ call.op # "run"
    /\ addCalls < MaxAdapterCalls
    /\ addCalls' = addCalls + 1
    /\ \E i \in Instances, e \in EventNames :
          LET r == set_event(breakpoints, call.next[i], e)
          IN /\ breakpoints' = r.breakpoints
             /\ call' = [call EXCEPT !.op = "set_event", !.inst = i,
                                     !.next[i] = @ + 1, !.owner = Append(@, i)]
    /\ UNCHANGED <<state, gdbVars, events, logVars, pc, helperVars, ev, iter, nset, outcome,
                   fatal, hist>>

\* run(blocking=False) on object i, whose inferior stops at one of the
\* breakpoints of i's GDB
InstanceRun ==
    /\ pc = "instances"
    /\ call.op # "run"
    /\ \E i \in Instances :
         \E n \in 2..(call.next[i] - 1) :
            LET r == run_loop(<<MiRunning, MiBreakpointHit(n)>>, FALSE)
            IN /\ call' = [call EXCEPT !.op = "run", !.inst = i, !.bkptno = n,
                                       !.kind = r.kind, !.value = r.value]
               /\ state' = r.state
    /\ UNCHANGED <<breakpoints, gdbVars, events, logVars, pc, helperVars, ev, iter, nset,
                   outcome, fatal, hist, addCalls>>

NextInstances == InstanceSetEvent \/ InstanceRun

SpecInstances == InitInstances /\ [][NextInstances]_vars

(* ----------------------- main: the configuration ----------------------- *)

\* the fields main tests before it builds the injector (main.py:219-266),
\* in the order of the tests
FieldsBeforeInjector ==
    <<"configuration", "executable", "golden_result_condition", "result_condition",
      "number_of_runs", "timeout", "injection_delay", "injection_delay.min",
      "injection_delay.max", "experiment_name", "gdb", "gdb.gdb_path">>

\* the field main tests after it (main.py:299)
FieldsAfterInjector == <<"injector">>

SeqRange(q) == {q[i] : i \in 1..Len(q)}

\* a configuration file: the one required field it lacks, if any, the
\* value_probability column of the bucket the first injection selects, and
\* the --report option
Configs ==
    [missing : SeqRange(FieldsBeforeInjector) \cup SeqRange(FieldsAfterInjector) \cup {"none"},
     cases : ListsUpTo(ProbValues, MaxCases) \ {<<>>},
     report : BOOLEAN]

NoConfigRun == [started |-> FALSE, failure |-> "none", failed_after_start |-> FALSE]

InitConfig ==
    /\ InitCommon
    /\ \E c \in Configs : call = [op |-> "main", config |-> c, run |-> NoConfigRun]
    /\ pc = "cfg_read"

\* main.py:216-297: the tests of the fields of `configuration`, --report,
\* and gdb_injector(...), which spawns the debugger
ReadConfiguration ==
    /\ pc = "cfg_read"
    /\ IF call.config.missing \in SeqRange(FieldsBeforeInjector)
       THEN /\ call' = [call EXCEPT !.run.failure = call.config.missing]
            /\ pc' = "fatal"
       ELSE IF call.config.report
       THEN /\ pc' = "done"
            /\ UNCHANGED call
       ELSE /\ call' = [call EXCEPT !.run.started = TRUE]
            /\ pc' = "cfg_injector"
    /\ UNCHANGED <<adapterVars, gdbVars, events, logVars, helperVars, ev, iter, nset,
                   outcome, fatal, hist, addCalls>>

\* main.py:299-337: the test of `injector`, the CSV and the golden run
ReadInjector ==
    /\ pc = "cfg_injector"
    /\ IF call.config.missing \in SeqRange(FieldsAfterInjector)
       THEN /\ call' = [call EXCEPT !.run.failure = call.config.missing,
                                    !.run.failed_after_start = call.run.started]
            /\ pc' = "fatal"
       ELSE /\ pc' = "cfg_runs"
            /\ UNCHANGED call
    /\ UNCHANGED <<adapterVars, gdbVars, events, logVars, helperVars, ev, iter, nset,
                   outcome, fatal, hist, addCalls>>

\* main.py:355-391: the first injection_function builds Fixed(distribution)
\* from the value_probability column
FirstInjection ==
    /\ pc = "cfg_runs"
    /\ IF Fixed_init(call.config.cases) = "AssertionError"
       THEN /\ call' = [call EXCEPT !.run.failure = "value_probability",
                                    !.run.failed_after_start = call.run.started]
            /\ pc' = "fatal"
       ELSE /\ pc' = "done"
            /\ UNCHANGED call
    /\ UNCHANGED <<adapterVars, gdbVars, events, logVars, helperVars, ev, iter, nset,
                   outcome, fatal, hist, addCalls>>

NextConfig == ReadConfiguration \/ ReadInjector \/ FirstInjection

SpecConfig == InitConfig /\ [][NextConfig]_vars

(* ------------------------------ claims --------------------------------- *)

CallEnded == hist.mode # "none" /\ outcome.kind # "none"
NoStopSeen == hist.hit = "none" /\ ~hist.exited

\* C1: Injector.run(timeout, injection_delay, inject_func): when, after the
\* injection, the inferior neither hits a breakpoint nor exits, the call
\* ends by returning "Timeout".
C1_NoStopAfterInjectionGivesTimeout ==
    (CallEnded /\ hist.mode = "inject" /\ hist.timeout /\ hist.injected
        /\ hist.postStop = "none")
    => outcome = Returned("Timeout")

\* C2: Injector.run(timeout=t) without injection_delay and inject_func: when
\* the inferior reaches no stop condition, the call ends by returning
\* "Timeout".
C2_PlainRunWithTimeoutGivesTimeout ==
    (CallEnded /\ hist.mode = "plain" /\ hist.timeout /\ NoStopSeen)
    => outcome = Returned("Timeout")

\* C3: whenever Injector.run has returned "Timeout", the adapter state is
\* INTERRUPT (so that the next read_memory is accepted).
C3_TimeoutLeavesInterrupted ==
    outcome = Returned("Timeout") => state = INTERRUPT

\* C4: add_run is fatal whenever golden is non-empty and the record's key
\* set differs from golden's, the first run record after the golden
\* included.
C4_KeySetMismatchIsFatal ==
    (call.made /\ DOMAIN call.goldenBefore # {}
        /\ DOMAIN call.rec # DOMAIN call.goldenBefore)
    => call.failed

\* C5: when add_run fails fatally, runs and golden hold exactly what they
\* held before the call.
C5_FailedAddRunLeavesLogs ==
    call.failed => (golden = call.goldenBefore /\ runs = call.runsBefore)

\* C5 witness: an add_run that failed on its key set, with both logs
\* non-empty
C5_Witness ==
    /\ call.failed
    /\ ~ \E k \in DOMAIN call.rec : bad_value(call.rec[k])
    /\ DOMAIN call.runsBefore # {}
    /\ DOMAIN call.goldenBefore # {}

\* C6: a blocking Injector.run() that stops at a registered breakpoint calls
\* the callback exactly once, in state INTERRUPT, before it returns, and
\* returns the event of the breakpoint that was hit.
C6_CallbackOnceThenReturn ==
    /\ (hist.mode = "plain" /\ outcome.kind = "returned")
          => /\ hist.cbCount = 1
             /\ hist.cbState = INTERRUPT
             /\ outcome.value = hist.hit
             /\ outcome.value \in events
    /\ (hist.mode = "plain" /\ pc = "run_cb")
          => (hist.cbCount = 0 /\ outcome.kind = "none")
    /\ (hist.mode = "plain" /\ pc = "run_return")
          => (hist.cbCount = 1 /\ outcome.kind = "none")

\* C6 witness: the golden run has returned "stop" after one callback
C6_Witness ==
    /\ hist.mode = "plain"
    /\ outcome = Returned(golden_result_condition)
    /\ hist.cbCount = 1
    /\ hist.hit = golden_result_condition

\* C7: when the inferior exits normally after a run is started, the call is
\* not fatal: it returns "exit" and the adapter state is EXIT.
C7_ExitIsAResult ==
    (CallEnded /\ hist.exited) => (outcome = Returned("exit") /\ state = EXIT)

\* C8: in Injector.run with an injection, once the non-blocking run reports
\* a stop or interrupt returns a breakpoint, inject_func is not called, no
\* blocking run is started, and what the call returns is that event's name;
\* for a registered breakpoint the call does return.
C8_EarlyEventSkipsInjection ==
    (hist.mode = "inject" /\ hist.preStop # "none")
    => /\ ~hist.injected
       /\ hist.blocking = 0
       /\ hpc = "idle"
       /\ pc \notin {"run_inject", "run_submit", "run_result", "run_join"}
       /\ (outcome.kind = "returned" => outcome.value = hist.preStop)
       /\ (hist.preStop \in EventNames => outcome.kind # "raised")

\* C8 witness: interrupt returned a breakpoint's name and the call returned
\* it
C8_Witness ==
    /\ hist.mode = "inject"
    /\ hist.preVia = "interrupt"
    /\ hist.preStop \in EventNames
    /\ outcome = Returned(hist.preStop)

Bit(n, i) == (n \div (2 ^ i)) % 2

C10_OneRecordPerIteration ==
    pc = "done" =>
       /\ DOMAIN golden = Labels
       /\ DOMAIN runs = Labels
       /\ \A k \in Labels : Len(golden[k]) = 1 /\ Len(runs[k]) = NumberOfRuns

\* C10 witness: a finished campaign one of whose iterations ended in
\* "Timeout"
C10_Witness ==
    /\ pc = "done"
    /\ "result" \in DOMAIN runs
    /\ \E i \in 1..Len(runs["result"]) : runs["result"][i] = Scalar("Timeout")

(* --------------------- claims about the adapter ------------------------ *)

\* C11: read_memory and write_memory called while the adapter state is
\* RUNNING fail fatally.
C11_MemoryAccessWhileRunningIsFatal ==
    (call.op \in {"read_memory", "write_memory"} /\ call.stateBefore = RUNNING)
    => (call.end = "SystemExit" /\ call.sent = <<>>)

\* C11 witness: a write_memory rejected in state RUNNING although the
\* inferior itself had stopped and GDB would have taken the command
C11_Witness ==
    /\ call.op = "write_memory"
    /\ call.stateBefore = RUNNING
    /\ call.end = "SystemExit"
    /\ inf = "stopped"

\* C12: read_register and write_register called while the adapter state is
\* RUNNING fail fatally.
C12_RegisterAccessWhileRunningIsFatal ==
    (call.op \in {"read_register", "write_register"} /\ call.stateBefore = RUNNING)
    => call.end = "SystemExit"

\* C13: memory and register reads and writes issued in state STARTING or
\* EXIT fail fatally.
C13_AccessOnlyWhenInterrupted ==
    (/\ call.op \in {"read_memory", "write_memory", "read_register", "write_register"}
     /\ call.stateBefore \in {STARTING, EXIT})
    => call.end = "SystemExit"

\* C14: GDBInjector.run called while the adapter state is already RUNNING
\* fails, and no further -exec-continue is written.
C14_RunWhileRunningIsRejected ==
    (call.op = "run" /\ call.stateBefore = RUNNING)
    => (call.sent = <<>> /\ call.end = "SystemExit")

\* C15: GDBInjector.interrupt called in state STARTING, INTERRUPT or EXIT
\* fails.
C15_InterruptOnlyWhenRunning ==
    (call.op = "interrupt" /\ call.stateBefore # RUNNING /\ call.end # "none")
    => call.end = "SystemExit"

\* C16: set_event called while the adapter state is RUNNING fails fatally
\* and the breakpoint registry is what it was before the call.
C16_SetEventWhileRunningIsFatal ==
    (call.op = "set_event" /\ call.stateBefore = RUNNING)
    => (call.end = "SystemExit" /\ breakpoints = call.bpsBefore)

\* C16 witness: a set_event rejected in state RUNNING, with a breakpoint
\* already in the registry
C16_Witness ==
    /\ call.op = "set_event"
    /\ call.stateBefore = RUNNING
    /\ call.end = "SystemExit"
    /\ call.bpsBefore # <<>>
    /\ breakpoints = call.bpsBefore

\* C17: after reset has returned, the adapter state is INTERRUPT, whichever
\* of STARTING, INTERRUPT and EXIT it was before.
C17_ResetGivesInterrupted ==
    (/\ call.op = "reset"
     /\ call.end = "returned"
     /\ call.stateBefore # RUNNING
     /\ hpc = "idle")
    => state = INTERRUPT

\* C18: after reset has returned, the breakpoint registry is empty: no id
\* registered by a set_event before the reset resolves to a name.
C18_ResetClearsRegistry ==
    (call.op = "reset" /\ call.end = "returned")
    => /\ breakpoints = <<>>
       /\ \A k \in 1..Len(call.bpsBefore) : lookup_breakpoint(call.bpsBefore[k].id) = ""

(* ------------------ claims about the memory conversions ---------------- *)

RECURSIVE WordOfBytes(_, _, _, _)
\* the integer formed from bytes [lo, hi) of b (0-based), byte j weighing
\* ByteBase^(j - lo) for little and ByteBase^(hi - 1 - j) for big
WordOfBytes(b, lo, hi, e) ==
    IF lo >= hi THEN 0
    ELSE b[hi] * IntPow(ByteBase, IF e = "little" THEN hi - 1 - lo ELSE 0)
         + WordOfBytes(b, lo, hi - 1, e) * (IF e = "little" THEN 1 ELSE ByteBase)

CeilDiv(a, b) == (a + b - 1) \div b

Min(a, b) == IF a < b THEN a ELSE b

\* C21: parse_memory of one chunk at offset 0 holding `count` bytes returns
\* ceil(count / word_size) words, word i being the integer formed from bytes
\* [i*W, min((i+1)*W, count)) of the chunk in the target byte order.
C21_ParseMemoryWords ==
    call.op = "parse_memory" =>
        /\ call.result.err = "none"
        /\ Len(call.result.words) = CeilDiv(call.count, call.wsize)
        /\ \A i \in 0..(Len(call.result.words) - 1) :
              call.result.words[i + 1] =
                  WordOfBytes(call.bytes, i * call.wsize,
                              Min((i + 1) * call.wsize, call.count), call.endianness)

\* a chunk of two full words and a non-zero partial word, in big-endian order
C21_Witness ==
    /\ call.op = "parse_memory"
    /\ call.wsize = 4
    /\ call.count = 9
    /\ call.endianness = "big"
    /\ call.bytes[1] = 0 /\ call.bytes[4] = 1
    /\ call.result.words = <<1, WordOfBytes(call.bytes, 4, 8, "big"), ByteBase - 1>>

\* the chunks of the call that cover word slot i, the slot of a chunk being
\* its byte offset divided by the word size
ChunksAtSlot(i) ==
    {k \in 1..Len(call.memory) :
        LET c == call.memory[k]
            first == c.offset \div call.wsize
        IN first <= i /\ i < first + (c.end - c.begin) \div call.wsize}

\* C38: for a chunk list with gaps, parse_memory returns ceil(count /
\* word_bytes) words, the words of each chunk in the slots given by the
\* chunk's byte offset divided by the word size, and 0 in every slot that no
\* chunk covers.
C38_ChunksFillTheirSlots ==
    call.op = "parse_chunks" =>
        /\ call.result.err = "none"
        /\ Len(call.result.words) = CeilDiv(call.count, call.wsize)
        /\ \A i \in 0..(Len(call.result.words) - 1) :
              /\ ChunksAtSlot(i) = {} => call.result.words[i + 1] = 0
              /\ \A k \in ChunksAtSlot(i) :
                    LET c == call.memory[k]
                        j == i - c.offset \div call.wsize
                    IN call.result.words[i + 1] =
                          WordOfBytes(fromhex(c.contents), j * call.wsize,
                                      (j + 1) * call.wsize, call.endianness)

\* C22: for word_size 4 and 8, either byte order and every v below
\* 2^(8 * word_size), the word written with to_gdb_hex and read back with
\* parse_memory / get_int is v.
C22_WriteReadRoundTrip ==
    call.op = "write_read" =>
        /\ get_int(call.hex, call.endianness) = call.value
        /\ call.result = [err |-> "none", words |-> <<call.value>>]

\* an 8-byte big-endian word whose bytes are not a palindrome
C22_Witness ==
    /\ call.op = "write_read"
    /\ call.wsize = 8
    /\ call.endianness = "big"
    /\ call.value = 1
    /\ call.hex[16] = 1
    /\ call.result.words = <<1>>


(* ----------------------- claims about Memory --------------------------- *)

\* the addresses lo, lo + s, lo + 2s, ... below hi of the key of the call
StepAddrs ==
    LET s == IF call.key.step = NoStep THEN call.wsize ELSE call.key.step
    IN {a \in call.key.start..(call.key.stop - 1) : (a - call.key.start) % s = 0}

StepOfCall == IF call.key.step = NoStep THEN call.wsize ELSE call.key.step

C24_RangeReadIsWordList ==
    (call.op = "getitem" /\ call.key.step = NoStep) =>
        /\ call.result.list
        /\ Len(call.result.words) = CeilDiv(call.key.stop - call.key.start, call.wsize)
        /\ \A i \in 1..Len(call.result.words) :
              call.result.words[i] = TargetWords[call.key.start + (i - 1) * call.wsize]

(* -------------------- claims about distributions ---------------------- *)

\* C25: Fixed(cases) fails whenever the sum of the probabilities differs from
\* 1 by more than 1e-6 in either direction, and succeeds otherwise.
C25_FixedRejectsBothDirections ==
    call.op = "Fixed" =>
        LET d == ProbOne - sum(call.cases, Len(call.cases))
        IN (call.result = "AssertionError") <=> (d > ProbTolerance \/ d < 0 - ProbTolerance)

\* C26: every value of Uniform(lo, hi, g).random() is floor(x / g) * g for an
\* integer x of lo..hi: a multiple of g, with adjust(x) <= x < adjust(x) + g
\* and adjust(adjust(x)) = adjust(x).
C26_UniformIsAdjustedDraw ==
    call.op = "Uniform.random" =>
        /\ call.lo <= call.x /\ call.x <= call.hi
        /\ call.value % call.g = 0
        /\ call.value <= call.x
        /\ call.x < call.value + call.g
        /\ \A k \in (0 - 2 * MaxBit)..(2 * MaxBit) :
              (k * call.g <= call.x /\ call.x < (k + 1) * call.g) => call.value = k * call.g
        /\ adjust(call.value, call.g) = call.value

\* a negative draw that is no multiple of the granularity
C26_Witness ==
    /\ call.op = "Uniform.random"
    /\ call.x = -3
    /\ call.g = 2
    /\ call.value = -4

RECURSIVE WordsValue(_, _, _)
\* the sum over i < n of out[i] * 2^(bits * i)
WordsValue(out, n, bits) ==
    IF n = 0 THEN 0 ELSE WordsValue(out, n - 1, bits) + out[n] * IntPow(2, bits * (n - 1))

\* C31: the words Stencil.random returns for pattern p and offset o each lie
\* in [0, 2^word_bits - 1] and their little-endian concatenation is p << o.
C31_StencilWordsAreShiftedPattern ==
    call.op = "Stencil.random" =>
        /\ call.out.err = "none"
        /\ \A i \in 1..Len(call.out.words) :
              call.out.words[i] >= 0 /\ call.out.words[i] < IntPow(2, call.max_size)
        /\ WordsValue(call.out.words, Len(call.out.words), call.max_size)
              = call.pattern * IntPow(2, call.choice)

(* ------------------------ claims about registers ----------------------- *)

\* the listed registers whose name differs from the name of the call by
\* letter case at most
CaseMatches == {k \in 1..Len(call.names) : lower(call.names[k]) = lower(call.name)}

\* C27: register reads and writes look the name up case-insensitively: a name
\* that differs only by case from a listed name is accepted and accesses that
\* register, and only a name matching no listed register is fatal.
C27_RegisterLookupIgnoresCase ==
    call.op \in {"getitem", "setitem"} =>
        /\ CaseMatches # {} => (call.lookup = "found" /\ call.accessed \in CaseMatches)
        /\ CaseMatches = {} => call.lookup = "fatal"

\* C28: read_register returns the integer value of the register when its
\* entry carries a `value` field, and fails fatally exactly when it carries
\* none.
C28_ReadRegisterReturnsValue ==
    (call.op = "getitem" /\ call.lookup = "found") =>
        /\ call.has_value => (call.end = "returned" /\ call.value = int_of("17"))
        /\ ~call.has_value <=> call.end = "SystemExit"

(* ------------------ claims about run and unknown stops ----------------- *)

\* record i of the batch of the call is a breakpoint-hit stop whose bkptno
\* is the id of no entry of the registry
UnknownHit(i) ==
    /\ call.batch[i].message = "stopped"
    /\ call.batch[i].reason = "breakpoint-hit"
    /\ \A k \in 1..Len(breakpoints) : breakpoints[k].id # call.batch[i].bkptno

\* C29: a run whose only stop notification is a breakpoint hit with a bkptno
\* that matches no entry of the registry returns `unknown`, in blocking mode
\* too.
C29_UnknownBkptnoReturnsUnknown ==
    (/\ call.op = "run"
     /\ \E i \in 1..Len(call.batch) : UnknownHit(i)
     /\ \A i \in 1..Len(call.batch) : call.batch[i].message = "stopped" => UnknownHit(i))
    => (call.kind = "return" /\ call.value = "unknown")

(* -------------------- claims about the configuration ------------------ *)

\* C30: every validation failure of the configuration (a missing required
\* field, value probabilities not summing to 1) is detected before the
\* debugger is spawned.
C30_ValidationBeforeDebugger ==
    (pc = "fatal" /\ call.run.failure # "none") => ~call.run.failed_after_start

(* ---------------- claims about the adapter and its threads ------------- *)

\* C32: after run(blocking=False) has returned `unknown` with no stop seen,
\* the adapter state is RUNNING, until a stop is processed or interrupt is
\* called (the next call of the adapter).
C32_UnknownLeavesRunning ==
    (/\ call.op = "run"
     /\ call.arg = FALSE
     /\ call.end = "returned"
     /\ call.value = "unknown")
    => state = RUNNING

\* the timeout of the future has passed: Injector.run is leaving with
\* "Timeout", or has returned it
TimeoutPassed == pc = "run_join" \/ outcome = Returned("Timeout")

\* a step in which the controller thread writes an MI command: the snapshot
\* read of main (not rejected by the state check), or -exec-interrupt
SnapshotReadWritten == pc = "m_record" /\ pc' # "m_record" /\ ~memory_access_rejected
InterruptWritten == pc = "run_sleep" /\ pc' # "run_sleep"

\* C33: after a blocking run has ended with `Timeout`, the first MI command
\* the controller writes is -exec-interrupt --all: a step that writes the
\* snapshot read is not taken before it.
C33_InterruptFirstAfterTimeout ==
    [][(TimeoutPassed /\ (SnapshotReadWritten \/ InterruptWritten)) => InterruptWritten]_vars

\* C34: the helper task never writes an MI command; the -exec-continue of
\* the blocking run too is written by the controller thread.
C34_HelperNeverWritesMi ==
    [][~(hpc = "h_run" /\ hpc' = "h_await")]_vars

\* the helper is inside GDBInjector.run: about to write -exec-continue, or
\* polling for its answer
HelperInTransaction == hpc \in {"h_run", "h_await"}

\* the controller thread is inside Injector.run waiting for the future or
\* for the executor, and so inside no call of the adapter
ControllerWaits == pc \in {"run_result", "run_join"}

\* C35: no two threads are inside an MI transaction of the adapter at once:
\* while the helper's blocking run is writing or polling, the controller
\* thread issues no snapshot read, reset or other MI command, also after a
\* timeout.
C35_OneThreadInTransaction ==
    HelperInTransaction => ControllerWaits

\* the timeout has passed and the helper is still polling: the controller
\* is held in the exit of the executor
C35_Witness ==
    /\ pc = "run_join"
    /\ hpc = "h_await"
    /\ hist.timeout
    /\ inf = "running"

\* C37: run(blocking=True, stop_event=e) whose response holds no stop: once
\* e is set, whether before the loop looks at it or during the turn, the run
\* returns `Timeout` without a further matching record.
C37_StopEventEndsBlockingRun ==
    (/\ call.op = "run_stop_event"
     /\ \A i \in 1..Len(call.batch) : call.batch[i].message # "stopped")
    => (call.kind = "return" /\ call.value = "Timeout")

\* C40: whenever read_memory, write_memory or set_event fails because the
\* adapter state is Running, the call has written no MI command to the
\* debugger.
C40_RejectedBeforeAnyCommand ==
    (/\ call.op \in {"read_memory", "write_memory", "set_event"}
     /\ call.stateBefore = RUNNING
     /\ call.end = "SystemExit")
    => call.sent = <<>>

\* C39: the registry an adapter object uses holds only entries appended by
\* set_event on that object, their ids are pairwise distinct, and a stop on
\* one object is never labelled with a name that only another object
\* registered.
C39_RegistryBelongsToInstance ==
    /\ call.op \in {"set_event", "run"} =>
          \A k \in 1..Len(breakpoints) : call.owner[k] = call.inst
    /\ \A j, k \in 1..Len(breakpoints) :
          j # k => breakpoints[j].id # breakpoints[k].id
    /\ (call.op = "run" /\ call.kind = "return" /\ call.value # "unknown") =>
          \E k \in 1..Len(breakpoints) :
             call.owner[k] = call.inst /\ breakpoints[k].name = call.value

(* -------------------------- claims about check ------------------------- *)

\* the value of `key` in a dict
TreeGet(dict, key) == GetItem(dict, key)
IsScalar(v) == v.t \in {"str", "int"}

RECURSIVE StructuralMatch(_, _)
\* the matching rule as the specification states it: every key of expected
\* is in received and (a) the expected value is null, or (b) both values are
\* dicts that match, or (c) both are scalars and equal, or (d) the expected
\* value is a list of dicts each of which matches the received value
StructuralMatch(received, expected) ==
    /\ received.t = "dict"
    /\ \A i \in 1..Len(expected.d) :
          LET k == expected.d[i].k
              e == expected.d[i].v
          IN /\ \E j \in 1..Len(received.d) : received.d[j].k = k
             /\ LET r == TreeGet(received, k)
                IN \/ e.t = "null"
                   \/ (e.t = "dict" /\ r.t = "dict" /\ StructuralMatch(r, e))
                   \/ (IsScalar(e) /\ IsScalar(r) /\ e = r)
                   \/ (/\ e.t = "list"
                       /\ \A j \in 1..Len(e.l) :
                             e.l[j].t = "dict" /\ StructuralMatch(r, e.l[j]))

\* C19: check(received, expected) is true iff the structural matching rule
\* holds of received and expected.
C19_CheckIsStructuralMatch ==
    call.op = "check"
    => ((call.result = "True") <=> StructuralMatch(call.data, call.wait_for))

(* --------------------- claims about await_response --------------------- *)

\* a record that ends await_response: an MI error, or one that matches one
\* of the shapes
AwaitMatches(x) == \E w \in call.wait : check_record(x, w)
AwaitEnds(x) == x.message = "error" \/ AwaitMatches(x)

\* C20: await_response goes through the records in arrival order, polling
\* for further batches while none ends it, and ends at the first record that
\* is an MI error (fatal, with that record's payload) or matches a shape; in
\* non-whole mode it returns exactly that record, which matches a shape.
C20_AwaitEndsAtFirstErrorOrMatch ==
    call.op = "await_response" =>
       LET b == call.batch
           first == {i \in 1..Len(b) : AwaitEnds(b[i]) /\ \A j \in 1..(i - 1) : ~AwaitEnds(b[j])}
       IN /\ ~call.earlier
          /\ (call.end = "none") <=> (first = {})
          /\ \A i \in first :
                /\ (call.end = "SystemExit") <=> (b[i].message = "error")
                /\ call.end = "SystemExit" => call.value = <<b[i]>>
                /\ (call.end = "returned" /\ ~call.whole) =>
                      (call.value = <<b[i]>> /\ AwaitMatches(b[i]))
                /\ (call.end = "returned" /\ call.whole) => call.value = b

\* C36: in whole_response mode await_response returns every record received
\* since the command was written, up to and including the matching record,
\* also when they came in several polls: as many records as the earlier
\* batches held plus those of the last batch up to the match, ending with
\* the latter.
C36_WholeResponseAccumulates ==
    (call.op = "await_response" /\ call.whole /\ call.end = "returned") =>
        \E k \in 1..Len(call.batch) :
            /\ AwaitMatches(call.batch[k])
            /\ \A j \in 1..(k - 1) : ~AwaitEnds(call.batch[j])
            /\ Len(call.value) = call.before + k
            /\ \A j \in 1..k : call.value[call.before + j] = call.batch[j]

\* C20 witness: a non-whole call that polled twice, then skipped a record
\* that matches no shape and returned the record after it
C20_Witness ==
    /\ call.op = "await_response"
    /\ call.polls = 2
    /\ ~call.whole
    /\ call.end = "returned"
    /\ Len(call.batch) = 2
    /\ call.value = <<call.batch[2]>>
    /\ ~AwaitEnds(call.batch[1])

====
